---- MODULE Spec2Model ----
(***************************************************************************)
(* Verification model of the browser-automation core of agent-service:     *)
(*   - PagePool                     (src/src/client/taobao_client.py)      *)
(*   - WhatsAppMonitor              (src/src/client/whatsapp_client.py)    *)
(*   - WhatsAppBrowserClient        (src/src/client/whatsapp_client.py)    *)
(*   - WhatsAppTool                 (src/src/tools/whatsapp.py)            *)
(* Every component has its own specification over the shared variable      *)
(* list; the variables of the other components stay unchanged.             *)
(***************************************************************************)
EXTENDS Integers, Sequences, FiniteSets, TLC

(***************************************************************************)
(* Bounds of the model.                                                    *)
(***************************************************************************)
NumProcs == 3
NumBatches == 2
MaxIds == 2
NumCoroutines == 3
MaxLaunches == 3
MaxPages == 2
MaxCreated == 3
NumTasks == 2
NumLoops == 2
MaxCycles == 2
NumCallers == 3
NumContacts == 2
MaxItems == 2
MaxNameLen == 2
MaxTextLen == 4
MaxNodes == 2
MaxInputLen == 3

(***************************************************************************)
(* PagePool state.                                                         *)
(***************************************************************************)
VARIABLES
  available_pages,   \* deque of idle pages (sequence of page ids)
  in_use_pages,      \* set of pages handed out
  pool_lock,         \* owner of PagePool._lock, NoProc when free
  ppc,               \* position of every caller inside the pool methods
  parg,              \* page argument of the return_page call in progress
  closed_pages,      \* pages on which page.close() has been called
  created            \* number of pages browser_manager.new_page() has made

poolVars == <<available_pages, in_use_pages, pool_lock, ppc, parg,
              closed_pages, created>>

(***************************************************************************)
(* WhatsAppMonitor state.                                                  *)
(***************************************************************************)
VARIABLES
  is_running,        \* WhatsAppMonitor.is_running
  current_task,      \* WhatsAppMonitor.current_task (NoTask for None)
  task_lock,         \* owner of WhatsAppMonitor._task_lock, NoLoop when free
  tasks,             \* name -> MonitorTask (enabled, execution_count, error_count)
  lpc,               \* position of every start_monitoring coroutine
  task_name,         \* the task each coroutine is awaiting in _execute_tasks
  cancel_req,        \* Task.cancel() has been called on the coroutine
  monitoring_task,   \* WhatsAppBrowserClient._monitoring_task (NoLoop for None)
  cycles,            \* number of cycles started so far
  registered,        \* the keys of WhatsAppMonitor.tasks
  iter_size          \* per coroutine: the size of tasks when its for loop over
                     \* tasks.items() began, 0 outside the loop

monVars == <<is_running, current_task, task_lock, tasks, lpc, task_name,
             cancel_req, monitoring_task, cycles, registered, iter_size>>

(***************************************************************************)
(* Compound operations on the one WhatsApp page.                           *)
(***************************************************************************)
VARIABLES
  auto_reply_lock,   \* owner of _global_auto_reply_lock, NoCaller when free
  tool_lock,         \* owner of WhatsAppTool._lock, NoCaller when free
  opc,               \* position of every caller inside its compound operation
  okind,             \* how the caller reaches the client: monitor, tool, direct
  otarget,           \* the contact the operation is about
  open_chat,         \* the chat the page shows (NoContact: none)
  acted_on           \* the chat each caller's read or send acted on

opVars == <<auto_reply_lock, tool_lock, opc, okind, otarget, open_chat,
            acted_on>>

(***************************************************************************)
(* WhatsAppBrowserClient.get_unread_messages.                              *)
(***************************************************************************)
VARIABLES
  current_chat_info, \* self._current_chat_info: <<>> (None) or <<message>>
  cached_before,     \* the cache as the last scan found it
  chat_read,         \* what the last scan read as the chat's last message
  from_cache,        \* the last scan appended the cache-derived entry
  collected,         \* unread_messages of the last scan before the dedup
  returned,          \* the list the last scan returned
  scan_failed,       \* the last scan ended in its outer except handler
  reloaded,          \* random_reload_page of the last scan reloaded the page
  logged_counts      \* <<contact_name, unread_count>> of each "Found unread
                     \* message" line the last scan logged

scanVars == <<current_chat_info, cached_before, chat_read, from_cache,
              collected, returned, scan_failed, reloaded, logged_counts>>

(***************************************************************************)
(* WhatsAppBrowserClient.get_target_contact_chat_active.                   *)
(***************************************************************************)
VARIABLES
  page_started,      \* self.page is set
  gpc,               \* position inside get_target_contact_chat_active
  target_contact,    \* its argument (stripped once past the empty check)
  result,            \* the result dictionary
  contact_info,      \* <<>> (None) or <<[name, element]>>
  header_read,       \* current_contact_name: the header as the call last read it
  page_ops           \* what the call did on the page: scan, search, click

resolveVars == <<page_started, gpc, target_contact, result, contact_info,
                 header_read, page_ops>>

(***************************************************************************)
(* WhatsAppBrowserClient._is_contact_match, applied to two names.          *)
(***************************************************************************)
VARIABLES
  match_a,           \* current_contact of the last call
  match_b,           \* target_contact of the last call
  match_out,         \* what the last call returned
  match_called       \* a call was made and its result is not yet consumed

matchVars == <<match_a, match_b, match_out, match_called>>

(***************************************************************************)
(* WhatsAppBrowserClient.auto_reply_message: sending a generated reply.    *)
(***************************************************************************)
VARIABLES
  reply_pc,          \* idle, sending (inside the loop over the chunks), done
  reply_sender,      \* contact_message.sender
  reply_text,        \* reply['ai_reply_message']
  messages_to_send,  \* the chunks that are still to be sent
  sends              \* the send_message_to_contact calls issued, in order

replyVars == <<reply_pc, reply_sender, reply_text, messages_to_send, sends>>

(***************************************************************************)
(* WhatsAppBrowserClient.get_chat_messages.                                *)
(***************************************************************************)
VARIABLES
  chat_pc,           \* idle, parsing (inside the loop over the elements), done
  elements_left,     \* how many message elements the loop has still to visit
  rendered,          \* the elements visited so far, as the page rendered them
  messages           \* the list get_chat_messages builds and returns

chatVars == <<chat_pc, elements_left, rendered, messages>>

(***************************************************************************)
(* WhatsAppBrowserClient.human_like_input.                                 *)
(***************************************************************************)
VARIABLES
  input_pc,          \* idle, typing, typed, retype, done
  input_text,        \* the text argument
  to_type,           \* the characters the typing loop has still to type
  field,             \* the content of the input field
  field_start,       \* the content of the field when the typing began
  keystrokes,        \* characters typed by the typing loop
  input_result       \* the value returned: TRUE or FALSE

inputVars == <<input_pc, input_text, to_type, field, field_start, keystrokes,
               input_result>>

\* TaobaoBrowserClient.get_product_info_batch: each call of the method is a
\* batch; each of its tasks is a lookup run by one caller of the page pool
VARIABLES
  batch_pc,          \* per batch: "idle", "running" or "returned"
  product_ids,       \* per batch: the list of ids the call was given
  semaphore,         \* per batch: free permits of the call's own semaphore
  product_info_map,  \* per batch: the map the call returned
  lk,                \* per lookup: "none", "queued", "permit", "finally", "done"
  lookup_of,         \* per lookup: <<batch, position in product_ids>>
  lookup_page,       \* per lookup: <<>>, or <<page>> once get_page returned
  lookup_outcome,    \* per lookup: how the lookup went
  lookup_result      \* per lookup: what its task handed to gather

batchVars == <<batch_pc, product_ids, semaphore, product_info_map, lk,
               lookup_of, lookup_page, lookup_outcome, lookup_result>>

\* TaobaoBrowserClient and its BrowserManager: start() and close() as run
\* by concurrent coroutines on one client
VARIABLES
  started,           \* TaobaoBrowserClient.started
  playwright,        \* BrowserManager.playwright: 0 (None) or the driver's number
  browser,           \* BrowserManager.browser: 0 (None) or the launch's number
  context,           \* BrowserManager.context: 0 (None) or the launch's number
  launch_calls,      \* how often launch_persistent_context was called
  closed_browsers,   \* the launches whose browser was closed
  spc,               \* per coroutine: its position in start(), a lookup or close()
  launching,         \* per coroutine: the number of the launch it awaits
  page_from          \* per coroutine: the launch its last new_page() used

sessionVars == <<started, playwright, browser, context, launch_calls,
                 closed_browsers, spc, launching, page_from>>

VARIABLES
  ar_pc,                    \* idle, loop (at the for statement), generate
                            \* (history fetched), done, raised
  unread_contact_messages,  \* the list the scan of this call returned
  entry,                    \* position of the for loop in that list
  recently_messages,        \* what get_contact_chat_list returned
  generated,                \* per sender: handle_customer_message calls
  replied,                  \* per sender: replies sent
  ar_result                 \* what the call returned

autoReplyVars == <<ar_pc, unread_contact_messages, entry, recently_messages,
                   generated, replied, ar_result>>

vars == <<poolVars, monVars, opVars, scanVars, resolveVars,
    matchVars,
    replyVars,
    chatVars,
    inputVars,
    batchVars,
    sessionVars,
    autoReplyVars>>

Procs == 1..NumProcs
NoProc == 0
NoPage == 0
PageIds == 1..MaxCreated

max_pages == MaxPages

\* what a batch lookup sees of a pool call that returns to it in this step:
\* `page = await self.page_pool.get_page(...)` binds the page that get_page
\* moved into in_use_pages (NoPage when get_page raised), and the lookup's
\* page is given up when return_page comes back
LookupsFollow ==
  /\ lookup_page' = [p \in Procs |->
       IF lk[p] = "none" \/ ppc[p] = "idle" \/ ppc'[p] # "idle"
       THEN lookup_page[p]
       ELSE IF ppc[p] \in {"gp_lock", "gp_new", "gp_wait"}
       THEN IF in_use_pages' \ in_use_pages # {}
            THEN <<CHOOSE page \in in_use_pages' \ in_use_pages : TRUE>>
            ELSE <<NoPage>>
       ELSE <<>>]
  /\ UNCHANGED <<batch_pc, product_ids, semaphore, product_info_map, lk,
                 lookup_of, lookup_outcome, lookup_result>>

PoolOnly ==
  /\ UNCHANGED <<monVars, opVars, scanVars, resolveVars, matchVars,
                 replyVars, chatVars, inputVars, sessionVars,
                 autoReplyVars>>
  /\ LookupsFollow

SeqToSet(s) == {s[i] : i \in 1..Len(s)}

(***************************************************************************)
(* PagePool.__init__                                                       *)
(***************************************************************************)
InitPool ==
  /\ available_pages = <<>>
  /\ in_use_pages = {}
  /\ pool_lock = NoProc
  /\ ppc = [p \in Procs |-> "idle"]
  /\ parg = [p \in Procs |-> NoPage]
  /\ closed_pages = {}
  /\ created = 0

(***************************************************************************)
(* PagePool.get_page                                                       *)
(***************************************************************************)
\* the capacity test of get_page (line 44)
UnderCapacityOffByOne(n) == n <= max_pages

UnderCapacity(n) == n < max_pages

\* `async with self._lock`: entered only while nobody holds the lock
LockFree(l) == l = NoProc

\* a caller enters get_page and queues on `async with self._lock`
GetPageCall(p) ==
  /\ ppc[p] = "idle"
  /\ ppc' = [ppc EXCEPT ![p] = "gp_lock"]
  /\ UNCHANGED <<available_pages, in_use_pages, pool_lock, parg,
                 closed_pages, created>>
  /\ PoolOnly

\* the lock is granted; the code runs up to its first await
GetPageEnter(p) ==
  /\ ppc[p] = "gp_lock"
  /\ LockFree(pool_lock)
  /\ IF Len(available_pages) > 0
       THEN \* popleft, add to in_use, return (lock released on exit)
            /\ in_use_pages' = in_use_pages \cup {Head(available_pages)}
            /\ available_pages' = Tail(available_pages)
            /\ ppc' = [ppc EXCEPT ![p] = "idle"]
            /\ UNCHANGED pool_lock
       ELSE /\ pool_lock' = p
            /\ ppc' = [ppc EXCEPT ![p] =
                 IF UnderCapacity(Cardinality(in_use_pages))
                   THEN "gp_new" ELSE "gp_wait"]
            /\ UNCHANGED <<available_pages, in_use_pages>>
  /\ UNCHANGED <<parg, closed_pages, created>>
  /\ PoolOnly

\* await browser_manager.new_page() returns a fresh page
GetPageNew(p) ==
  /\ ppc[p] = "gp_new"
  /\ created < MaxCreated
  /\ created' = created + 1
  /\ in_use_pages' = in_use_pages \cup {created + 1}
  /\ pool_lock' = NoProc
  /\ ppc' = [ppc EXCEPT ![p] = "idle"]
  /\ UNCHANGED <<available_pages, parg, closed_pages>>
  /\ PoolOnly

\* new_page() returns None or raises: RuntimeError leaves the with-block
GetPageNewFails(p) ==
  /\ ppc[p] = "gp_new"
  /\ pool_lock' = NoProc
  /\ ppc' = [ppc EXCEPT ![p] = "idle"]
  /\ UNCHANGED <<available_pages, in_use_pages, parg, closed_pages,
                 created>>
  /\ PoolOnly

\* one iteration of `while not self.available_pages: await asyncio.sleep(0.1)`
\* and the code after the loop; the lock is held all the time
GetPagePoll(p) ==
  /\ ppc[p] = "gp_wait"
  /\ IF Len(available_pages) = 0
       THEN UNCHANGED <<available_pages, in_use_pages, pool_lock, ppc>>
       ELSE /\ in_use_pages' = in_use_pages \cup {Head(available_pages)}
            /\ available_pages' = Tail(available_pages)
            /\ pool_lock' = NoProc
            /\ ppc' = [ppc EXCEPT ![p] = "idle"]
  /\ UNCHANGED <<parg, closed_pages, created>>
  /\ PoolOnly

(***************************************************************************)
(* PagePool.return_page                                                    *)
(***************************************************************************)
\* a caller enters return_page(page) and queues on the lock
ReturnPageCall(p, page) ==
  /\ ppc[p] = "idle"
  /\ page \in 1..created
  /\ ppc' = [ppc EXCEPT ![p] = "rp_lock"]
  /\ parg' = [parg EXCEPT ![p] = page]
  /\ UNCHANGED <<available_pages, in_use_pages, pool_lock, closed_pages,
                 created>>
  /\ PoolOnly

\* lock granted: `if page in self.in_use_pages: remove`, then await page.title()
ReturnPageEnter(p) ==
  /\ ppc[p] = "rp_lock"
  /\ LockFree(pool_lock)
  /\ IF parg[p] \in in_use_pages
       THEN /\ in_use_pages' = in_use_pages \ {parg[p]}
            /\ pool_lock' = p
            /\ ppc' = [ppc EXCEPT ![p] = "rp_probe"]
            /\ UNCHANGED parg
       ELSE /\ ppc' = [ppc EXCEPT ![p] = "idle"]
            /\ parg' = [parg EXCEPT ![p] = NoPage]
            /\ UNCHANGED <<in_use_pages, pool_lock>>
  /\ UNCHANGED <<available_pages, closed_pages, created>>
  /\ PoolOnly

\* page.title() answers: the page goes back to the idle deque
ReturnPageProbeOk(p) ==
  /\ ppc[p] = "rp_probe"
  /\ parg[p] \notin closed_pages
  /\ available_pages' = Append(available_pages, parg[p])
  /\ pool_lock' = NoProc
  /\ ppc' = [ppc EXCEPT ![p] = "idle"]
  /\ parg' = [parg EXCEPT ![p] = NoPage]
  /\ UNCHANGED <<in_use_pages, closed_pages, created>>
  /\ PoolOnly

\* page.title() raises (crashed or closed page): go on to page.close()
ReturnPageProbeFails(p) ==
  /\ ppc[p] = "rp_probe"
  /\ ppc' = [ppc EXCEPT ![p] = "rp_close"]
  /\ UNCHANGED <<available_pages, in_use_pages, pool_lock, parg,
                 closed_pages, created>>
  /\ PoolOnly

\* await page.close() (its own error is only logged); the page is dropped
ReturnPageCloseRecycles(p) ==
  /\ ppc[p] = "rp_close"
  /\ closed_pages' = closed_pages \cup {parg[p]}
  /\ available_pages' = Append(available_pages, parg[p])
  /\ pool_lock' = NoProc
  /\ ppc' = [ppc EXCEPT ![p] = "idle"]
  /\ parg' = [parg EXCEPT ![p] = NoPage]
  /\ UNCHANGED <<in_use_pages, created>>
  /\ PoolOnly

ReturnPageClose(p) ==
  /\ ppc[p] = "rp_close"
  /\ closed_pages' = closed_pages \cup {parg[p]}
  /\ pool_lock' = NoProc
  /\ ppc' = [ppc EXCEPT ![p] = "idle"]
  /\ parg' = [parg EXCEPT ![p] = NoPage]
  /\ UNCHANGED <<available_pages, in_use_pages, created>>
  /\ PoolOnly

(***************************************************************************)
(* PagePool.close_all_pages                                                *)
(***************************************************************************)
CloseAllCall(p) ==
  /\ ppc[p] = "idle"
  /\ ppc' = [ppc EXCEPT ![p] = "ca_lock"]
  /\ UNCHANGED <<available_pages, in_use_pages, pool_lock, parg,
                 closed_pages, created>>
  /\ PoolOnly

\* lock granted: both collections are cleared, then every page is closed
CloseAllEnter(p) ==
  /\ ppc[p] = "ca_lock"
  /\ LockFree(pool_lock)
  /\ closed_pages' = closed_pages \cup SeqToSet(available_pages) \cup in_use_pages
  /\ available_pages' = <<>>
  /\ in_use_pages' = {}
  /\ ppc' = [ppc EXCEPT ![p] = "idle"]
  /\ UNCHANGED <<pool_lock, parg, created>>
  /\ PoolOnly

NextPool ==
  \/ \E p \in Procs : GetPageCall(p)
  \/ \E p \in Procs : GetPageEnter(p)
  \/ \E p \in Procs : GetPageNew(p)
  \/ \E p \in Procs : GetPageNewFails(p)
  \/ \E p \in Procs : GetPagePoll(p)
  \/ \E p \in Procs : \E page \in PageIds : ReturnPageCall(p, page)
  \/ \E p \in Procs : ReturnPageEnter(p)
  \/ \E p \in Procs : ReturnPageProbeOk(p)
  \/ \E p \in Procs : ReturnPageProbeFails(p)
  \/ \E p \in Procs : ReturnPageClose(p)
  \/ \E p \in Procs : CloseAllCall(p)
  \/ \E p \in Procs : CloseAllEnter(p)

FairPool ==
  \A p \in Procs :
    /\ WF_vars(GetPageEnter(p))
    /\ WF_vars(GetPageNew(p) \/ GetPageNewFails(p))
    /\ WF_vars(GetPagePoll(p))
    /\ WF_vars(ReturnPageEnter(p))
    /\ WF_vars(ReturnPageProbeOk(p) \/ ReturnPageProbeFails(p))
    /\ WF_vars(ReturnPageClose(p))
    /\ WF_vars(CloseAllEnter(p))

(***************************************************************************)
(* WhatsAppMonitor                                                         *)
(***************************************************************************)
TaskNames == 1..NumTasks
Loops == 1..NumLoops
NoTask == 0
NoLoop == 0

MonOnly == UNCHANGED <<poolVars, opVars, scanVars, resolveVars,
    matchVars,
    replyVars,
    chatVars,
    inputVars,
    batchVars,
    sessionVars,
    autoReplyVars>>

\* MonitorTask.__init__: a task starts enabled with both counters at zero
MonitorTask(en) == [enabled |-> en, execution_count |-> 0, error_count |-> 0]

\* WhatsAppMonitor.__init__: the default task auto_reply_message (task 1) is
\* registered and disabled; the other tasks were added enabled by add_task
InitMon ==
  /\ is_running = FALSE
  /\ current_task = NoTask
  /\ task_lock = NoLoop
  /\ tasks = [t \in TaskNames |-> MonitorTask(t # 1)]
  /\ lpc = [l \in Loops |-> "idle"]
  /\ task_name = [l \in Loops |-> NoTask]
  /\ cancel_req = [l \in Loops |-> FALSE]
  /\ monitoring_task = NoLoop
  /\ cycles = 0
  /\ registered = TaskNames
  /\ iter_size = [l \in Loops |-> 0]

\* `async with self._task_lock`: entered only while nobody holds the lock
TaskLockFreeAlways(o) == TRUE

TaskLockFree(o) == o = NoLoop

\* `if not task.enabled: continue`: the task is skipped unless enabled
RunsTaskAlways(task) == TRUE

RunsTask(task) == task.enabled

\* `while self.is_running`: a new cycle is started only while the flag is set
LoopConditionAlways(flag) == TRUE

LoopCondition(flag) == flag

\* the for loop of _execute_tasks after task i (0: from the start): the next
\* task in dict order that is not skipped, NoTask when the loop is over
NextTask(i, tk) ==
  IF \E j \in registered : j > i /\ RunsTask(tk[j])
    THEN CHOOSE j \in registered :
           /\ j > i /\ RunsTask(tk[j])
           /\ \A k \in registered : (k > i /\ RunsTask(tk[k])) => j <= k
    ELSE NoTask

\* _execute_tasks from the task after i up to its next await: either the
\* next enabled task is awaited (the lock is held), or the loop is over, the
\* lock is released and start_monitoring goes to sleep
ExecuteFrom(l, i, tk) ==
  LET j == NextTask(i, tk) IN
  /\ tasks' = tk
  /\ task_name' = [task_name EXCEPT ![l] = j]
  /\ iter_size' = [iter_size EXCEPT ![l] =
       IF j # NoTask THEN Cardinality(registered) ELSE 0]
  /\ IF j # NoTask
       THEN /\ lpc' = [lpc EXCEPT ![l] = "run"]
            /\ current_task' = j
            /\ task_lock' = l
       ELSE /\ lpc' = [lpc EXCEPT ![l] = "sleep"]
            /\ current_task' = IF i = 0 THEN current_task ELSE NoTask
            /\ task_lock' = NoLoop

\* one pass of the while loop begins: _execute_tasks is called
CycleStart(l) ==
  /\ cycles < MaxCycles
  /\ cycles' = cycles + 1
  /\ IF TaskLockFree(task_lock)
       THEN ExecuteFrom(l, 0, tasks)
       ELSE /\ lpc' = [lpc EXCEPT ![l] = "lock"]
            /\ UNCHANGED <<current_task, task_lock, tasks, task_name,
                           iter_size>>

\* monitor.start_monitoring() is called (directly or through create_task)
CreateLoop(l) ==
  /\ lpc[l] = "idle"
  /\ lpc' = [lpc EXCEPT ![l] = "new"]
  /\ UNCHANGED <<iter_size, is_running, current_task, task_lock, tasks, task_name,
                 cancel_req, monitoring_task, cycles>>
  /\ UNCHANGED registered
  /\ MonOnly

\* WhatsAppBrowserClient._start_monitoring with no monitoring task alive:
\* the coroutine is created and remembered in _monitoring_task
ClientStartMonitoring(l) ==
  /\ lpc[l] = "idle"
  /\ IF monitoring_task = NoLoop THEN TRUE ELSE lpc[monitoring_task] = "done"
  /\ lpc' = [lpc EXCEPT ![l] = "new"]
  /\ monitoring_task' = l
  /\ UNCHANGED <<iter_size, is_running, current_task, task_lock, tasks, task_name,
                 cancel_req, cycles>>
  /\ UNCHANGED registered
  /\ MonOnly

\* start_monitoring runs from its first line to its first await
StartMonitoring(l) ==
  /\ lpc[l] = "new"
  /\ ~cancel_req[l]
  /\ IF is_running
       THEN /\ lpc' = [lpc EXCEPT ![l] = "done"]
            /\ UNCHANGED <<is_running, current_task, task_lock, tasks,
                           task_name, cycles, iter_size>>
       ELSE /\ is_running' = TRUE
            /\ CycleStart(l)
  /\ UNCHANGED <<cancel_req, monitoring_task>>
  /\ UNCHANGED registered
  /\ MonOnly

\* the sleep between two cycles is over: the while condition is tested
LoopTop(l) ==
  /\ lpc[l] = "sleep"
  /\ ~cancel_req[l]
  /\ IF LoopCondition(is_running)
       THEN /\ CycleStart(l)
            /\ UNCHANGED is_running
       ELSE /\ lpc' = [lpc EXCEPT ![l] = "done"]
            /\ is_running' = FALSE
            /\ UNCHANGED <<current_task, task_lock, tasks, task_name,
                           cycles, iter_size>>
  /\ UNCHANGED <<cancel_req, monitoring_task>>
  /\ UNCHANGED registered
  /\ MonOnly

\* a coroutine queued on _task_lock gets it
LockGranted(l) ==
  /\ lpc[l] = "lock"
  /\ ~cancel_req[l]
  /\ TaskLockFree(task_lock)
  /\ ExecuteFrom(l, 0, tasks)
  /\ UNCHANGED <<is_running, cancel_req, monitoring_task, cycles>>
  /\ UNCHANGED registered
  /\ MonOnly

\* the for loop asks its iterator for the next item: the iterator raises
\* RuntimeError when the dict no longer has the size the loop began with
IterationRaises(l) == Cardinality(registered) # iter_size[l]

\* the RuntimeError leaves _execute_tasks (the lock is released) and is
\* caught by start_monitoring, whose finally block clears is_running
IterationFails(l, tk) ==
  /\ tasks' = tk
  /\ lpc' = [lpc EXCEPT ![l] = "done"]
  /\ task_name' = [task_name EXCEPT ![l] = NoTask]
  /\ iter_size' = [iter_size EXCEPT ![l] = 0]
  /\ current_task' = NoTask
  /\ task_lock' = NoLoop
  /\ is_running' = FALSE

\* the awaited task function returns
TaskSucceeds(l) ==
  /\ lpc[l] = "run"
  /\ ~cancel_req[l]
  /\ LET t == task_name[l]
         tk == [tasks EXCEPT ![t].execution_count = @ + 1]
     IN  IF IterationRaises(l)
           THEN IterationFails(l, tk)
           ELSE ExecuteFrom(l, t, tk) /\ UNCHANGED is_running
  /\ UNCHANGED <<cancel_req, monitoring_task, cycles>>
  /\ UNCHANGED registered
  /\ MonOnly

\* the handler counts the error and lets the exception go on to
\* start_monitoring, which ends the loop
TaskRaisesStopsLoop(l) ==
  /\ lpc[l] = "run"
  /\ ~cancel_req[l]
  /\ tasks' = [tasks EXCEPT ![task_name[l]].error_count = @ + 1]
  /\ lpc' = [lpc EXCEPT ![l] = "done"]
  /\ task_name' = [task_name EXCEPT ![l] = NoTask]
  /\ current_task' = NoTask
  /\ task_lock' = NoLoop
  /\ is_running' = FALSE
  /\ iter_size' = [iter_size EXCEPT ![l] = 0]
  /\ UNCHANGED <<cancel_req, monitoring_task, cycles>>
  /\ UNCHANGED registered
  /\ MonOnly

\* the awaited task function raises an Exception: the handler counts it and
\* the for loop goes on
TaskRaises(l) ==
  /\ lpc[l] = "run"
  /\ ~cancel_req[l]
  /\ LET t == task_name[l]
         tk == [tasks EXCEPT ![t].error_count = @ + 1]
     IN  IF IterationRaises(l)
           THEN IterationFails(l, tk)
           ELSE ExecuteFrom(l, t, tk) /\ UNCHANGED is_running
  /\ UNCHANGED <<cancel_req, monitoring_task, cycles>>
  /\ UNCHANGED registered
  /\ MonOnly

\* `if task_name in self.tasks`
EnableTask(t) ==
  /\ t \in registered
  /\ tasks' = [tasks EXCEPT ![t].enabled = TRUE]
  /\ UNCHANGED <<iter_size, is_running, current_task, task_lock, lpc, task_name,
                 cancel_req, monitoring_task, cycles>>
  /\ UNCHANGED registered
  /\ MonOnly

DisableTask(t) ==
  /\ t \in registered
  /\ tasks' = [tasks EXCEPT ![t].enabled = FALSE]
  /\ UNCHANGED <<iter_size, is_running, current_task, task_lock, lpc, task_name,
                 cancel_req, monitoring_task, cycles>>
  /\ UNCHANGED registered
  /\ MonOnly

\* WhatsAppMonitor.stop_monitoring: only the flag is cleared
StopMonitoring ==
  /\ is_running' = FALSE
  /\ UNCHANGED <<iter_size, current_task, task_lock, tasks, lpc, task_name,
                 cancel_req, monitoring_task, cycles>>
  /\ UNCHANGED registered
  /\ MonOnly

\* `if self._monitoring_task and not self._monitoring_task.done()`
Cancels(l) == l # NoLoop /\ lpc[l] \notin {"idle", "done"}

\* WhatsAppBrowserClient.stop_monitoring: the flag is cleared and the
\* monitoring task, if it is not done, is cancelled
ClientStopMonitoring ==
  /\ is_running' = FALSE
  /\ cancel_req' = [l \in Loops |->
       IF l = monitoring_task /\ Cancels(l) THEN TRUE ELSE cancel_req[l]]
  /\ UNCHANGED <<iter_size, current_task, task_lock, tasks, lpc, task_name,
                 monitoring_task, cycles>>
  /\ UNCHANGED registered
  /\ MonOnly

\* CancelledError is thrown into the coroutine where it is suspended: it is
\* no Exception, so it passes both handlers; the finally blocks and the exit
\* of the with block run
CancelDelivered(l) ==
  /\ cancel_req[l]
  /\ lpc[l] \in {"new", "lock", "run", "sleep"}
  /\ lpc' = [lpc EXCEPT ![l] = "done"]
  /\ cancel_req' = [cancel_req EXCEPT ![l] = FALSE]
  /\ task_name' = [task_name EXCEPT ![l] = NoTask]
  /\ is_running' = IF lpc[l] = "new" THEN is_running ELSE FALSE
  /\ current_task' = IF lpc[l] = "run" THEN NoTask ELSE current_task
  /\ task_lock' = IF lpc[l] = "run" THEN NoLoop ELSE task_lock
  /\ iter_size' = [iter_size EXCEPT ![l] = 0]
  /\ UNCHANGED <<tasks, monitoring_task, cycles>>
  /\ UNCHANGED registered
  /\ MonOnly

\* add_task(name): a new MonitorTask is stored under the name, replacing
\* the task of that name if there is one.  A name that would bring the dict
\* back to the size a running for loop began with is not added.
AddTask(t) ==
  /\ t \in registered
       \/ \A l \in Loops :
            lpc[l] = "run" => iter_size[l] # Cardinality(registered) + 1
  /\ registered' = registered \cup {t}
  /\ tasks' = [tasks EXCEPT ![t] = MonitorTask(TRUE)]
  /\ UNCHANGED <<is_running, current_task, task_lock, lpc, task_name,
                 cancel_req, monitoring_task, cycles, iter_size>>
  /\ MonOnly

\* remove_task(name): `if task_name in self.tasks: del self.tasks[task_name]`
RemoveTask(t) ==
  /\ t \in registered
  /\ registered' = registered \ {t}
  /\ UNCHANGED <<is_running, current_task, task_lock, tasks, lpc, task_name,
                 cancel_req, monitoring_task, cycles, iter_size>>
  /\ MonOnly

NextMon ==
  \/ \E l \in Loops : CreateLoop(l)
  \/ \E l \in Loops : ClientStartMonitoring(l)
  \/ \E l \in Loops : StartMonitoring(l)
  \/ \E l \in Loops : LoopTop(l)
  \/ \E l \in Loops : LockGranted(l)
  \/ \E l \in Loops : TaskSucceeds(l)
  \/ \E l \in Loops : TaskRaises(l)
  \/ \E t \in TaskNames : EnableTask(t)
  \/ \E t \in TaskNames : DisableTask(t)
  \/ StopMonitoring
  \/ ClientStopMonitoring
  \/ \E l \in Loops : CancelDelivered(l)

\* the monitor with coroutines that register and remove tasks while the
\* loop runs
NextMonTasks ==
  \/ \E l \in Loops : CreateLoop(l)
  \/ \E l \in Loops : StartMonitoring(l)
  \/ \E l \in Loops : LoopTop(l)
  \/ \E l \in Loops : LockGranted(l)
  \/ \E l \in Loops : TaskSucceeds(l)
  \/ \E l \in Loops : TaskRaises(l)
  \/ \E t \in TaskNames : AddTask(t)
  \/ \E t \in TaskNames : RemoveTask(t)
  \/ StopMonitoring

\* the event loop resumes every coroutine that is ready, and a task function
\* that was awaited comes back
FairMon ==
  \A l \in Loops :
    /\ WF_vars(StartMonitoring(l))
    /\ WF_vars(LoopTop(l))
    /\ WF_vars(LockGranted(l))
    /\ WF_vars(TaskSucceeds(l) \/ TaskRaises(l))
    /\ WF_vars(CancelDelivered(l))

(***************************************************************************)
(* Compound operations: WhatsAppBrowserClient.auto_reply_message (run by   *)
(* the monitor), the WhatsAppTool methods, and direct client calls.  Each  *)
(* one resolves the contact (clicks) and then reads or sends in the chat   *)
(* that is open.                                                           *)
(***************************************************************************)
Callers == 1..NumCallers
NoCaller == 0
Contacts == 1..NumContacts
NoContact == 0
Kinds == {"monitor", "tool", "direct"}

OpOnly == UNCHANGED <<poolVars, monVars, scanVars, resolveVars,
    matchVars,
    replyVars,
    chatVars,
    inputVars,
    batchVars,
    sessionVars,
    autoReplyVars>>

InitOps ==
  /\ auto_reply_lock = NoCaller
  /\ tool_lock = NoCaller
  /\ opc = [c \in Callers |-> "idle"]
  /\ okind = [c \in Callers |-> "direct"]
  /\ otarget = [c \in Callers |-> NoContact]
  /\ open_chat = NoContact
  /\ acted_on = [c \in Callers |-> NoContact]

\* the lock a caller of kind k takes around its page actions: the monitor's
\* auto_reply_message takes _global_auto_reply_lock, a WhatsAppTool method
\* takes the tool's own _lock, a direct client call takes none
LockOf(k) ==
  CASE k = "monitor" -> "auto_reply"
    [] k = "tool" -> "tool"
    [] OTHER -> "none"

Holder(name) ==
  CASE name = "auto_reply" -> auto_reply_lock
    [] name = "tool" -> tool_lock
    [] OTHER -> NoCaller

\* an operation is called: it queues on its lock
OpCall(c, k, t) ==
  /\ opc[c] = "idle"
  /\ opc' = [opc EXCEPT ![c] = "lock"]
  /\ okind' = [okind EXCEPT ![c] = k]
  /\ otarget' = [otarget EXCEPT ![c] = t]
  /\ acted_on' = [acted_on EXCEPT ![c] = NoContact]
  /\ UNCHANGED <<auto_reply_lock, tool_lock, open_chat>>
  /\ OpOnly

\* the operation gets its lock (if it takes one) and starts
OpEnter(c) ==
  /\ opc[c] = "lock"
  /\ Holder(LockOf(okind[c])) = NoCaller
  /\ opc' = [opc EXCEPT ![c] = "resolve"]
  /\ auto_reply_lock' = IF LockOf(okind[c]) = "auto_reply" THEN c ELSE auto_reply_lock
  /\ tool_lock' = IF LockOf(okind[c]) = "tool" THEN c ELSE tool_lock
  /\ UNCHANGED <<okind, otarget, open_chat, acted_on>>
  /\ OpOnly

\* first page action: get_target_contact_chat_active clicks the contact, the
\* page now shows its chat
OpResolve(c) ==
  /\ opc[c] = "resolve"
  /\ open_chat' = otarget[c]
  /\ opc' = [opc EXCEPT ![c] = "act"]
  /\ UNCHANGED <<auto_reply_lock, tool_lock, okind, otarget, acted_on>>
  /\ OpOnly

\* last page action: get_chat_messages or _send_message_to_current_chat on
\* whatever chat is open; the lock is released on the way out
OpAct(c) ==
  /\ opc[c] = "act"
  /\ acted_on' = [acted_on EXCEPT ![c] = open_chat]
  /\ opc' = [opc EXCEPT ![c] = "idle"]
  /\ auto_reply_lock' = IF auto_reply_lock = c THEN NoCaller ELSE auto_reply_lock
  /\ tool_lock' = IF tool_lock = c THEN NoCaller ELSE tool_lock
  /\ UNCHANGED <<okind, otarget, open_chat>>
  /\ OpOnly

NextOps ==
  \/ \E c \in Callers : \E k \in Kinds : \E t \in Contacts : OpCall(c, k, t)
  \/ \E c \in Callers : OpEnter(c)
  \/ \E c \in Callers : OpResolve(c)
  \/ \E c \in Callers : OpAct(c)

(***************************************************************************)
(* get_unread_messages: one scan.  Strings are TLA+ strings, so that the   *)
(* dedup key is the concatenation the code builds.                         *)
(***************************************************************************)
Senders == {"a", "a:"}
Contents == {"b", ":b"}
Origins == {"chat", "badge"}

\* MessageItem; origin stands for the fields the dedup does not look at
\* (datetime, timestamp)
MessageItem(s, c, o) == [sender |-> s, content |-> c, origin |-> o]

ChatMessages == {MessageItem(s, c, "chat") : s \in Senders, c \in Contents}

\* what _get_current_chat_last_message can return: None or a message
ChatReads == {<<>>} \cup {<<m>> : m \in ChatMessages}

\* aria-label of an unread indicator, as a sequence of characters
TwoUnreadMessages ==
  <<"2", " ", "u", "n", "r", "e", "a", "d", " ",
    "m", "e", "s", "s", "a", "g", "e", "s">>
UnreadMessage ==
  <<"u", "n", "r", "e", "a", "d", " ", "m", "e", "s", "s", "a", "g", "e">>
DecimalDigits == {"0", "1", "2", "3", "4", "5", "6", "7", "8", "9"}

\* the digits at the front of a sequence of characters
RECURSIVE LeadingDigits(_)
LeadingDigits(chars) ==
  IF chars = <<>> \/ Head(chars) \notin DecimalDigits THEN <<>>
  ELSE <<Head(chars)>> \o LeadingDigits(Tail(chars))

\* re.search(r'(\d+)', aria_label).group(1), <<>> when there is no match
RECURSIVE FirstNumber(_)
FirstNumber(aria_label) ==
  IF aria_label = <<>> THEN <<>>
  ELSE IF Head(aria_label) \in DecimalDigits THEN LeadingDigits(aria_label)
  ELSE FirstNumber(Tail(aria_label))

\* unread_count of an indicator: "1" unless the label holds a number
unread_count(aria_label) ==
  IF FirstNumber(aria_label) = <<>> THEN <<"1">> ELSE FirstNumber(aria_label)

\* an unread indicator: of a muted chat, one whose chat item cannot be read,
\* or one that yields an entry; the indicators without a number in the
\* label cover every sender and preview, one indicator carries a number
Indicators ==
  {[kind |-> "muted"], [kind |-> "invalid"]}
    \cup {[kind |-> "entry", sender |-> s, content |-> c,
           label |-> UnreadMessage] : s \in Senders, c \in Contents}
    \cup {[kind |-> "entry", sender |-> "a", content |-> "b",
           label |-> TwoUnreadMessages]}

RECURSIVE SeqsUpTo(_, _)
SeqsUpTo(S, n) ==
  IF n = 0 THEN {<<>>}
  ELSE LET shorter == SeqsUpTo(S, n - 1) IN
       shorter \cup {Append(q, x) : q \in {r \in shorter : Len(r) = n - 1}, x \in S}

ReloadOutcomes == {"none", "ok", "fail"}

ScanOnly == UNCHANGED <<poolVars, monVars, opVars, resolveVars,
    matchVars,
    replyVars,
    chatVars,
    inputVars,
    batchVars,
    sessionVars,
    autoReplyVars>>

InitScan ==
  /\ current_chat_info = <<>>
  /\ cached_before = <<>>
  /\ chat_read = <<>>
  /\ from_cache = FALSE
  /\ collected = <<>>
  /\ returned = <<>>
  /\ scan_failed = FALSE
  /\ reloaded = FALSE
  /\ logged_counts = <<>>

\* a comparison that looks at the sender only
IsNewMessageAnyContent(cur, cached) ==
  /\ cur # <<>>
  /\ cached # <<>>
  /\ cur[1].sender = cached[1].sender

\* the comparison of the chat's last message with the cache: same sender,
\* different content
IsNewMessage(cur, cached) ==
  /\ cur # <<>>
  /\ cached # <<>>
  /\ cur[1].sender = cached[1].sender
  /\ cur[1].content # cached[1].content

\* the loop over the unread indicators
RECURSIVE Entries(_)
Entries(items) ==
  IF items = <<>> THEN <<>>
  ELSE LET it == Head(items) IN
       (IF it.kind = "entry"
          THEN <<MessageItem(it.sender, it.content, "badge")>>
          ELSE <<>>) \o Entries(Tail(items))

\* the "Found unread message from ..." lines of the loop, one per entry
RECURSIVE LoggedCounts(_)
LoggedCounts(items) ==
  IF items = <<>> THEN <<>>
  ELSE LET it == Head(items) IN
       (IF it.kind = "entry"
          THEN <<<<it.sender, unread_count(it.label)>>>>
          ELSE <<>>) \o LoggedCounts(Tail(items))

unique_key(message) == message.sender \o ":" \o message.content

\* the dedup loop: keep a message unless its key was seen
RECURSIVE DedupFrom(_, _)
DedupFrom(msgs, seen_combinations) ==
  IF msgs = <<>> THEN <<>>
  ELSE LET message == Head(msgs) IN
       IF unique_key(message) \in seen_combinations
         THEN DedupFrom(Tail(msgs), seen_combinations)
         ELSE <<message>>
                \o DedupFrom(Tail(msgs), seen_combinations \cup {unique_key(message)})

\* no dedup at all
UniqueMessagesKeepAll(msgs) == msgs

\* unique_messages, built with an empty seen_combinations to start from
UniqueMessages(msgs) == DedupFrom(msgs, {})

get_unread_messages(cur, items, reload) ==
  LET isnew == IsNewMessage(cur, current_chat_info)
      unread0 == IF isnew THEN cur ELSE <<>>
      unread_messages == unread0 \o Entries(items)
  IN
  /\ cached_before' = current_chat_info
  /\ chat_read' = cur
  /\ from_cache' = isnew
  /\ current_chat_info' = cur
  /\ logged_counts' = LoggedCounts(items)
  /\ IF items = <<>>
       THEN /\ collected' = unread0
            /\ returned' = unread0
            /\ scan_failed' = FALSE
            /\ reloaded' = FALSE
       ELSE /\ collected' = unread_messages
            /\ scan_failed' = (reload = "fail")
            /\ reloaded' = (reload = "ok")
            /\ returned' = IF reload = "fail" THEN <<>>
                           ELSE UniqueMessages(unread_messages)

NextScan ==
  \E cur \in ChatReads : \E items \in SeqsUpTo(Indicators, MaxItems) :
    \E reload \in ReloadOutcomes :
      get_unread_messages(cur, items, reload) /\ ScanOnly

(***************************************************************************)
(* Contact names are sequences of characters, so that lower(), strip(),    *)
(* replace() and the substring test are computed.  None and the empty      *)
(* string are both <<>>: the code only tests them for truth.               *)
(***************************************************************************)
Whitespace == {" ", "\n"}
PhoneFormatting == {"+", "-", " ", "(", ")"}

LowerChar(c) ==
  CASE c = "A" -> "a"
    [] c = "B" -> "b"
    [] c = "C" -> "c"
    [] OTHER -> c

Lower(str) == [i \in DOMAIN str |-> LowerChar(str[i])]

RECURSIVE StripLeft(_)
StripLeft(str) ==
  IF str # <<>> /\ Head(str) \in Whitespace THEN StripLeft(Tail(str)) ELSE str

RECURSIVE StripRight(_)
StripRight(str) ==
  IF str # <<>> /\ str[Len(str)] \in Whitespace
    THEN StripRight(SubSeq(str, 1, Len(str) - 1))
    ELSE str

Strip(str) == StripRight(StripLeft(str))

RemoveChars(str, chars) == SelectSeq(str, LAMBDA c : c \notin chars)

\* Python's `sub in str`
Contains(sub, str) ==
  \E i \in 1..(Len(str) - Len(sub) + 1) : SubSeq(str, i, i + Len(sub) - 1) = sub

\* a match that tests containment in one direction only
is_contact_match_one_way(current_contact, target) ==
  IF current_contact = <<>> \/ target = <<>> THEN FALSE
  ELSE LET cur == RemoveChars(Strip(Lower(current_contact)), {"+"})
           tgt == RemoveChars(Strip(Lower(target)), {"+"})
       IN \/ cur = tgt
          \/ Contains(cur, tgt)
          \/ RemoveChars(cur, PhoneFormatting) = RemoveChars(tgt, PhoneFormatting)

is_contact_match(current_contact, target) ==
  IF current_contact = <<>> \/ target = <<>> THEN FALSE
  ELSE LET cur == RemoveChars(Strip(Lower(current_contact)), {"+"})
           tgt == RemoveChars(Strip(Lower(target)), {"+"})
       IN \/ cur = tgt
          \/ Contains(cur, tgt)
          \/ Contains(tgt, cur)
          \/ RemoveChars(cur, PhoneFormatting) = RemoveChars(tgt, PhoneFormatting)

Names == {<<"B", "o">>, <<"b", "o">>, <<"A">>, <<"+">>, <<"b", "-", "o">>}
Targets == Names \cup {<<>>, <<" ">>, <<" ", "A">>}

\* what _get_current_chat_contact_name can return
HeaderReads == Names \cup {<<>>}

NoError == "None"
SearchErrors == {"Search input field not found", "No search results found",
                 "Failed to click on search result",
                 "Error searching for contact"}

InitialResult ==
  [success |-> FALSE, contact_found |-> FALSE, method_used |-> "failed",
   contact_name |-> <<>>, error |-> NoError]

\* what _find_contact_in_chat_list can return for a target: None, or a
\* list item whose name passed _is_contact_match
ChatListFinds(target) ==
  {<<>>} \cup {<<[name |-> n, element |-> e]>> :
                 n \in {m \in Names : is_contact_match(m, target)},
                 e \in BOOLEAN}

\* what _search_and_select_contact can return
SearchResults(target) ==
  {[success |-> TRUE, contact_name |-> n, error |-> NoError] :
     n \in {m \in Names : is_contact_match(m, target)}}
    \cup {[success |-> FALSE, contact_name |-> <<>>, error |-> e] :
            e \in SearchErrors}

ResolveOnly == UNCHANGED <<poolVars, monVars, opVars, scanVars,
    matchVars,
    replyVars,
    chatVars,
    inputVars,
    batchVars,
    sessionVars,
    autoReplyVars>>

InitResolve ==
  /\ page_started = FALSE
  /\ gpc = "idle"
  /\ target_contact = <<>>
  /\ result = InitialResult
  /\ contact_info = <<>>
  /\ header_read = <<>>
  /\ page_ops = {}

\* no call is in progress: none made yet, or the last one returned or raised
Resting == gpc \in {"idle", "returned", "raised"}

\* start() and close() of the client, between calls
ClientStart ==
  /\ Resting
  /\ ~page_started
  /\ page_started' = TRUE
  /\ UNCHANGED <<gpc, target_contact, result, contact_info, header_read,
                 page_ops>>
  /\ ResolveOnly

ClientClose ==
  /\ Resting
  /\ page_started
  /\ page_started' = FALSE
  /\ UNCHANGED <<gpc, target_contact, result, contact_info, header_read,
                 page_ops>>
  /\ ResolveOnly

\* the call: raises without a page, returns at once for an empty target
GetTargetCall(t) ==
  /\ Resting
  /\ contact_info' = <<>>
  /\ header_read' = <<>>
  /\ page_ops' = {}
  /\ IF ~page_started
       THEN /\ gpc' = "raised"
            /\ target_contact' = t
            /\ result' = InitialResult
       ELSE /\ IF t = <<>> \/ Strip(t) = <<>>
                 THEN /\ result' = [InitialResult EXCEPT
                                      !.error = "Target contact name cannot be empty"]
                      /\ gpc' = "returned"
                      /\ target_contact' = t
                 ELSE /\ result' = InitialResult
                      /\ gpc' = "step1"
                      /\ target_contact' = Strip(t)
  /\ UNCHANGED page_started
  /\ ResolveOnly

\* `current_contact_name and self._is_contact_match(...)`, never true
CurrentChatIsTargetNever(current_contact_name, target) == FALSE

\* `current_contact_name and self._is_contact_match(current_contact_name,
\* target_contact)`
CurrentChatIsTarget(current_contact_name, target) ==
  /\ current_contact_name # <<>>
  /\ is_contact_match(current_contact_name, target)

\* Step 1: the chat that is open already is the target's
CheckCurrentChat(current_contact_name) ==
  /\ gpc = "step1"
  /\ header_read' = current_contact_name
  /\ IF CurrentChatIsTarget(current_contact_name, target_contact)
       THEN /\ result' = [result EXCEPT !.success = TRUE,
                                        !.contact_found = TRUE,
                                        !.method_used = "current_chat",
                                        !.contact_name = current_contact_name]
            /\ gpc' = "returned"
       ELSE /\ gpc' = "step2"
            /\ UNCHANGED result
  /\ UNCHANGED <<page_started, target_contact, contact_info, page_ops>>
  /\ ResolveOnly

\* Step 2: the chat list
FindInChatList(found) ==
  /\ gpc = "step2"
  /\ found \in ChatListFinds(target_contact)
  /\ contact_info' = found
  /\ IF found # <<>>
       THEN /\ result' = [result EXCEPT !.method_used = "chat_list",
                                        !.contact_name = found[1].name]
            /\ gpc' = "found"
       ELSE /\ gpc' = "step3"
            /\ UNCHANGED result
  /\ page_ops' = page_ops \cup {"scan"}
  /\ UNCHANGED <<page_started, target_contact, header_read>>
  /\ ResolveOnly

\* a failed search whose error is lost
SearchErrorDropped(search_result) == NoError

\* the error a failed search hands on: search_result.get("error", ...)
SearchError(search_result) == search_result.error

\* Step 3: the search box
SearchAndSelect(search_result) ==
  /\ gpc = "step3"
  /\ search_result \in SearchResults(target_contact)
  /\ IF search_result.success
       THEN /\ result' = [result EXCEPT !.method_used = "search",
                                        !.contact_name = search_result.contact_name]
            /\ contact_info' = <<[name |-> search_result.contact_name,
                                  element |-> FALSE]>>
            /\ gpc' = "found"
       ELSE /\ result' = [result EXCEPT !.error = SearchError(search_result)]
            /\ gpc' = "returned"
            /\ UNCHANGED contact_info
  /\ page_ops' = page_ops \cup {"search"}
  /\ UNCHANGED <<page_started, target_contact, header_read>>
  /\ ResolveOnly

\* the contact was found: click it when there is an element to click
ClickContact(click_success) ==
  /\ gpc = "found"
  /\ IF contact_info[1].element /\ ~click_success
       THEN /\ result' = [result EXCEPT !.contact_found = TRUE,
                                        !.error = "Failed to click on contact"]
            /\ gpc' = "returned"
       ELSE /\ result' = [result EXCEPT !.contact_found = TRUE]
            /\ gpc' = "verify"
  /\ page_ops' = IF contact_info[1].element
                   THEN page_ops \cup {"click"} ELSE page_ops
  /\ UNCHANGED <<page_started, target_contact, contact_info, header_read>>
  /\ ResolveOnly

\* the wait before the verification throws: the except handler
VerifyWaitRaises ==
  /\ gpc = "verify"
  /\ result' = [result EXCEPT !.error = "Error activating chat for contact"]
  /\ gpc' = "returned"
  /\ UNCHANGED <<page_started, target_contact, contact_info, header_read,
                 page_ops>>
  /\ ResolveOnly

\* a verification that accepts whatever chat is open
ChatIsActiveUnverified(current_contact_name, target) == TRUE

\* the negation of `not current_contact_name or not
\* self._is_contact_match(current_contact_name, target_contact)`
ChatIsActive(current_contact_name, target) ==
  /\ current_contact_name # <<>>
  /\ is_contact_match(current_contact_name, target)

\* the verification: the header must now match the target
VerifyActive(current_contact_name) ==
  /\ gpc = "verify"
  /\ header_read' = current_contact_name
  /\ IF ~ChatIsActive(current_contact_name, target_contact)
       THEN result' = [result EXCEPT
                         !.error = "Failed to activate target contact chat"]
       ELSE result' = [result EXCEPT !.success = TRUE,
                                     !.contact_name = current_contact_name]
  /\ gpc' = "returned"
  /\ UNCHANGED <<page_started, target_contact, contact_info, page_ops>>
  /\ ResolveOnly

NextResolve ==
  \/ ClientStart
  \/ ClientClose
  \/ \E t \in Targets : GetTargetCall(t)
  \/ \E h \in HeaderReads : CheckCurrentChat(h)
  \/ \E found \in ChatListFinds(target_contact) : FindInChatList(found)
  \/ \E sr \in SearchResults(target_contact) : SearchAndSelect(sr)
  \/ \E ok \in BOOLEAN : ClickContact(ok)
  \/ VerifyWaitRaises
  \/ \E h \in HeaderReads : VerifyActive(h)

(***************************************************************************)
(* _is_contact_match on all short names over a small alphabet, and on the  *)
(* names of the documented examples.                                       *)
(***************************************************************************)
NameAlphabet == {"a", "b", "+", " ", "-"}

ShortNames == SeqsUpTo(NameAlphabet, MaxNameLen)

Phone1 == <<"+", "3", "3", " ", "6", " ", "1", "2", " ", "3", "4">>
Phone2 == <<"3", "3", "6", "1", "2", " ", "3", "4">>
Alice == <<"A", "l", "i", "c", "e">>
AliceSmith == <<"a", "l", "i", "c", "e", " ", "s", "m", "i", "t", "h">>
Bob == <<"B", "o", "b">>
Carol == <<"C", "a", "r", "o", "l">>

ExampleNames == {Phone1, Phone2, Alice, AliceSmith, Bob, Carol}

MatchOnly == UNCHANGED <<poolVars, monVars, opVars, scanVars, resolveVars,
    replyVars,
    chatVars,
    inputVars,
    batchVars,
    sessionVars,
    autoReplyVars>>

InitMatch ==
  /\ match_a = <<>>
  /\ match_b = <<>>
  /\ match_out = FALSE
  /\ match_called = FALSE

\* one call of _is_contact_match(a, b)
MatchCall(a, b) ==
  /\ ~match_called
  /\ match_called' = TRUE
  /\ match_a' = a
  /\ match_b' = b
  /\ match_out' = is_contact_match(a, b)
  /\ MatchOnly

\* the caller has used the result
MatchDone ==
  /\ match_called
  /\ match_called' = FALSE
  /\ match_a' = <<>>
  /\ match_b' = <<>>
  /\ match_out' = FALSE
  /\ MatchOnly

NextMatch ==
  \/ \E a \in ShortNames \cup ExampleNames :
       \E b \in ShortNames \cup ExampleNames : MatchCall(a, b)
  \/ MatchDone

(***************************************************************************)
(* auto_reply_message, from a successfully generated reply on: the text    *)
(* is split on the double newline, and every non-blank chunk is sent.      *)
(***************************************************************************)
TextAlphabet == {"x", " ", "\n"}

HiHowCanIHelp ==
  <<"H", "i", "!", "\n", "\n", "H", "o", "w", " ", "c", "a", "n", " ", "I",
    " ", "h", "e", "l", "p", "?">>

ReplyTexts == SeqsUpTo(TextAlphabet, MaxTextLen) \cup {HiHowCanIHelp}

\* the index at which the first sep starts in str, 0 when there is none
FirstIndexOf(sep, str) ==
  LET starts == {i \in 1..(Len(str) - Len(sep) + 1) :
                   SubSeq(str, i, i + Len(sep) - 1) = sep}
  IN IF starts = {} THEN 0
     ELSE CHOOSE i \in starts : \A j \in starts : i <= j

\* Python's str.split(sep): left to right, separators do not overlap
RECURSIVE Split(_, _)
Split(str, sep) ==
  LET i == FirstIndexOf(sep, str) IN
  IF i = 0 THEN <<str>>
  ELSE <<SubSeq(str, 1, i - 1)>>
         \o Split(SubSeq(str, i + Len(sep), Len(str)), sep)

\* message.replace('\n', ' ')
ReplaceNewlines(str) ==
  [i \in DOMAIN str |-> IF str[i] = "\n" THEN " " ELSE str[i]]

\* a filter that lets every chunk through
KeepChunkAlways(x) == TRUE

\* `if x.strip()`
KeepChunk(x) == Strip(x) # <<>>

\* [x.strip() for x in text.split('\n\n') if x.strip()]
RECURSIVE StrippedChunks(_)
StrippedChunks(chunks) ==
  IF chunks = <<>> THEN <<>>
  ELSE (IF KeepChunk(Head(chunks)) THEN <<Strip(Head(chunks))>> ELSE <<>>)
         \o StrippedChunks(Tail(chunks))

ReplyOnly == UNCHANGED <<poolVars, monVars, opVars, scanVars, resolveVars, matchVars,
    chatVars,
    inputVars,
    batchVars,
    sessionVars,
    autoReplyVars>>

InitReply ==
  /\ reply_pc = "idle"
  /\ reply_sender = ""
  /\ reply_text = <<>>
  /\ messages_to_send = <<>>
  /\ sends = <<>>

\* reply['success'] is true: the text is split into messages_to_send
ReplyGenerated(sender, text) ==
  /\ reply_pc = "idle"
  /\ reply_sender' = sender
  /\ reply_text' = text
  /\ messages_to_send' = StrippedChunks(Split(text, <<"\n", "\n">>))
  /\ sends' = <<>>
  /\ reply_pc' = IF messages_to_send' = <<>> THEN "done" ELSE "sending"
  /\ ReplyOnly

\* one pass of `for message in messages_to_send`; the call returns a result
\* dictionary whether or not the message went out
SendMessageToContact(success) ==
  /\ reply_pc = "sending"
  /\ sends' = Append(sends, [contact_name |-> reply_sender,
                             message |-> ReplaceNewlines(Head(messages_to_send)),
                             success |-> success])
  /\ messages_to_send' = Tail(messages_to_send)
  /\ reply_pc' = IF Tail(messages_to_send) = <<>> THEN "done" ELSE "sending"
  /\ UNCHANGED <<reply_sender, reply_text>>
  /\ ReplyOnly

\* the loop goes on to the next unread entry
ReplyDone ==
  /\ reply_pc = "done"
  /\ reply_pc' = "idle"
  /\ reply_sender' = ""
  /\ reply_text' = <<>>
  /\ messages_to_send' = <<>>
  /\ sends' = <<>>
  /\ ReplyOnly

NextReply ==
  \/ \E sender \in Senders : \E text \in ReplyTexts : ReplyGenerated(sender, text)
  \/ \E success \in BOOLEAN : SendMessageToContact(success)
  \/ ReplyDone

(***************************************************************************)
(* get_chat_messages and _parse_message_element.  A message element has    *)
(* text parts, img elements, and may raise while it is parsed.             *)
(***************************************************************************)
Digits == {"0", "1", "2", "3", "4", "5", "6", "7", "8", "9"}

\* re.match(r'^\d{1,2}:\d{2}$', text)
IsTimeStamp(text) ==
  \/ /\ Len(text) = 4
     /\ text[1] \in Digits /\ text[2] = ":"
     /\ text[3] \in Digits /\ text[4] \in Digits
  \/ /\ Len(text) = 5
     /\ text[1] \in Digits /\ text[2] \in Digits /\ text[3] = ":"
     /\ text[4] \in Digits /\ text[5] \in Digits

\* what text_content() of the content elements of a message can give:
\* nothing, None, blanks, a time stamp, text, several of them
ElementTexts ==
  {<<>>, << <<>> >>, << <<" ">> >>, << <<"9", ":", "3", "0">> >>,
   << <<"h">> >>, << <<"h">>, <<" ", "y">> >>,
   << <<"1", "2", ":", "0", "0">>, <<" ">> >>}

\* the src of the img elements of a message: a blob URL that converts, one
\* that does not, inline data, an ordinary URL
ElementImgs ==
  {<<>>, <<"blob:ok">>, <<"blob:gone">>, <<"data:image/">>, <<"http">>}

MessageElements ==
  [texts : ElementTexts, imgs : ElementImgs, out : BOOLEAN, raises : BOOLEAN]

\* the loop over content_elements: stripped parts that are neither blank nor
\* a time stamp
RECURSIVE content_parts(_)
content_parts(texts) ==
  IF texts = <<>> THEN <<>>
  ELSE LET text == Head(texts) IN
       (IF text # <<>> /\ Strip(text) # <<>> /\ ~IsTimeStamp(Strip(text))
          THEN <<Strip(text)>> ELSE <<>>) \o content_parts(Tail(texts))

\* ' '.join(parts)
RECURSIVE Join(_)
Join(parts) ==
  IF parts = <<>> THEN <<>>
  ELSE IF Len(parts) = 1 THEN Head(parts)
  ELSE Head(parts) \o <<" ">> \o Join(Tail(parts))

\* the loop over img_elements: blob URLs that convert and inline data
RECURSIVE images_of(_)
images_of(imgs) ==
  IF imgs = <<>> THEN <<>>
  ELSE LET img_src == Head(imgs) IN
       (CASE img_src = "blob:ok" -> <<"base64">>
          [] img_src = "data:image/" -> <<"data:image/">>
          [] OTHER -> <<>>) \o images_of(Tail(imgs))

\* `if not content and not images: return None`, never skipping
SkipsEmptyNever(content, images) == FALSE

\* `if not content and not images: return None`
SkipsEmpty(content, images) == content = <<>> /\ images = <<>>

\* a parse that hands back a record also for an element that raised
parse_message_element_partial(element) ==
  LET content == Strip(Join(content_parts(element.texts)))
      images == images_of(element.imgs)
  IN IF ~element.raises /\ SkipsEmpty(content, images) THEN <<>>
     ELSE <<[type |-> IF element.out THEN "sent" ELSE "received",
             content |-> content, images |-> images]>>

\* _parse_message_element: <<>> (None) or <<MessageItem>>
parse_message_element(element) ==
  LET content == Strip(Join(content_parts(element.texts)))
      images == images_of(element.imgs)
  IN IF element.raises \/ SkipsEmpty(content, images) THEN <<>>
     ELSE <<[type |-> IF element.out THEN "sent" ELSE "received",
             content |-> content, images |-> images]>>

ChatOnly == UNCHANGED <<poolVars, monVars, opVars, scanVars, resolveVars, matchVars, replyVars,
    inputVars,
    batchVars,
    sessionVars,
    autoReplyVars>>

InitChat ==
  /\ chat_pc = "idle"
  /\ elements_left = 0
  /\ rendered = <<>>
  /\ messages = <<>>

\* the call finds n message elements
GetChatMessages(n) ==
  /\ chat_pc = "idle"
  /\ elements_left' = n
  /\ rendered' = <<>>
  /\ messages' = <<>>
  /\ chat_pc' = IF n = 0 THEN "done" ELSE "parsing"
  /\ ChatOnly

\* waiting for #main or the query for the elements raises: the outer handler
GetChatMessagesFails ==
  /\ chat_pc = "idle"
  /\ elements_left' = 0
  /\ rendered' = <<>>
  /\ messages' = <<>>
  /\ chat_pc' = "done"
  /\ ChatOnly

\* one pass of `for element in message_elements`
ParseElement(element) ==
  /\ chat_pc = "parsing"
  /\ rendered' = Append(rendered, element)
  /\ messages' = messages \o parse_message_element(element)
  /\ elements_left' = elements_left - 1
  /\ chat_pc' = IF elements_left = 1 THEN "done" ELSE "parsing"
  /\ ChatOnly

\* the caller has the list
ChatMessagesReturned ==
  /\ chat_pc = "done"
  /\ chat_pc' = "idle"
  /\ elements_left' = 0
  /\ rendered' = <<>>
  /\ messages' = <<>>
  /\ ChatOnly

NextChat ==
  \/ \E n \in 0..MaxNodes : GetChatMessages(n)
  \/ GetChatMessagesFails
  \/ \E element \in MessageElements : ParseElement(element)
  \/ ChatMessagesReturned

(***************************************************************************)
(* human_like_input: click, clear, type the stripped text character by     *)
(* character, now and then delete and retype the last character.           *)
(***************************************************************************)
InputAlphabet == {"x", " "}

InputTexts == SeqsUpTo(InputAlphabet, MaxInputLen)

\* what the field may hold before the call
FieldContents == {<<>>, <<"o">>}

\* the text as given, ends included
TypedTextUnstripped(text) == text

\* `text.strip()`: what the typing loop goes through
TypedText(text) == Strip(text)

InputOnly == UNCHANGED <<poolVars, monVars, opVars, scanVars, resolveVars, matchVars, replyVars, chatVars,
    batchVars,
    sessionVars,
    autoReplyVars>>

InitInput ==
  /\ input_pc = "idle"
  /\ input_text = <<>>
  /\ to_type = <<>>
  /\ field = <<>>
  /\ field_start = <<>>
  /\ keystrokes = 0
  /\ input_result = FALSE

\* the call up to the typing loop: click, clear if asked, nothing more for a
\* blank text
HumanLikeInput(text, old, clear_first) ==
  /\ input_pc = "idle"
  /\ input_text' = text
  /\ field' = IF clear_first THEN <<>> ELSE old
  /\ field_start' = field'
  /\ keystrokes' = 0
  /\ IF TypedText(text) = <<>>
       THEN /\ to_type' = <<>>
            /\ input_pc' = "done"
            /\ input_result' = TRUE
       ELSE /\ to_type' = TypedText(text)
            /\ input_pc' = "typing"
            /\ input_result' = FALSE
  /\ InputOnly

\* `await self.page.keyboard.type(char)`
TypeChar ==
  /\ input_pc = "typing"
  /\ field' = Append(field, Head(to_type))
  /\ keystrokes' = keystrokes + 1
  /\ to_type' = Tail(to_type)
  /\ input_pc' = IF Tail(to_type) = <<>> THEN "typed" ELSE "typing"
  /\ UNCHANGED <<input_text, field_start, input_result>>
  /\ InputOnly

\* the 30% branch: Backspace ...
RetypeBackspace ==
  /\ input_pc = "typed"
  /\ field' = SubSeq(field, 1, Len(field) - 1)
  /\ input_pc' = "retype"
  /\ UNCHANGED <<input_text, to_type, field_start, keystrokes, input_result>>
  /\ InputOnly

\* ... and the last character again
RetypeLast ==
  /\ input_pc = "retype"
  /\ field' = Append(field, TypedText(input_text)[Len(TypedText(input_text))])
  /\ input_pc' = "retyped"
  /\ UNCHANGED <<input_text, to_type, field_start, keystrokes, input_result>>
  /\ InputOnly

\* the final wait, Enter if asked, return True
InputReturns ==
  /\ input_pc \in {"typed", "retyped"}
  /\ input_pc' = "done"
  /\ input_result' = TRUE
  /\ UNCHANGED <<input_text, to_type, field, field_start, keystrokes>>
  /\ InputOnly

\* a keyboard or wait call raises: the handler returns False
InputRaises ==
  /\ input_pc \in {"typing", "typed", "retype", "retyped"}
  /\ input_pc' = "done"
  /\ input_result' = FALSE
  /\ UNCHANGED <<input_text, to_type, field, field_start, keystrokes>>
  /\ InputOnly

\* the caller goes on
InputDone ==
  /\ input_pc = "done"
  /\ input_pc' = "idle"
  /\ input_text' = <<>>
  /\ to_type' = <<>>
  /\ field' = <<>>
  /\ field_start' = <<>>
  /\ keystrokes' = 0
  /\ input_result' = FALSE
  /\ InputOnly

NextInput ==
  \/ \E text \in InputTexts : \E old \in FieldContents :
       \E clear_first \in BOOLEAN : HumanLikeInput(text, old, clear_first)
  \/ TypeChar
  \/ RetypeBackspace
  \/ RetypeLast
  \/ InputReturns
  \/ InputRaises
  \/ InputDone

(***************************************************************************)
(* TaobaoBrowserClient.get_product_info_batch                              *)
(***************************************************************************)
BatchOnly == UNCHANGED <<poolVars, monVars, opVars, scanVars, resolveVars, matchVars, replyVars, chatVars, inputVars,
    sessionVars,
    autoReplyVars>>

Batches == 1..NumBatches
ProductIds == {"p1", "p2"}
IdLists == UNION {[1..n -> ProductIds] : n \in 0..MaxIds}

\* the cap in `asyncio.Semaphore(min(5, len(product_ids)))`
SemaphoreCap == 5

Min(a, b) == IF a < b THEN a ELSE b

None == <<>>
Info(product_id) == <<product_id>>
ExceptionResult == <<"Exception">>

\* what a lookup that obtained a page may meet: the API response arrives,
\* the 20 s wait times out, or page.goto (or the wait) raises
Outcomes == {"response", "timeout", "error"}

\* get_product_info_with_api once it has a page: the API response, or None
\* after a timeout or an exception
get_product_info_with_api(product_id, outcome) ==
  IF outcome = "response" THEN Info(product_id) ELSE None

\* get_single_product_info: an exception that escapes the lookup (get_page
\* raised) is caught and the id is paired with None
get_single_product_info_uncaught(product_id, outcome) ==
  IF outcome = "no_page" THEN ExceptionResult
  ELSE <<product_id, get_product_info_with_api(product_id, outcome)>>

get_single_product_info(product_id, outcome) ==
  IF outcome = "no_page" THEN <<product_id, None>>
  ELSE <<product_id, get_product_info_with_api(product_id, outcome)>>

\* the loop over gather's results: exceptions are skipped, every other
\* result overwrites the entry of its id
RECURSIVE BuildMap(_, _)
BuildMap(results, n) ==
  IF n = 0 THEN <<>>
  ELSE IF results[n] = ExceptionResult THEN BuildMap(results, n - 1)
  ELSE (results[n][1] :> results[n][2]) @@ BuildMap(results, n - 1)

FreeLookups == {p \in Procs : lk[p] = "none"}

\* the caller that runs the i-th task of a new batch
NthFree(i) ==
  CHOOSE p \in FreeLookups : Cardinality({q \in FreeLookups : q < p}) = i - 1

LookupsOf(b) == {p \in Procs : lookup_of[p] # <<>> /\ lookup_of[p][1] = b}

\* the lookup that runs the i-th task of batch b
TaskOf(b, i) == CHOOSE p \in Procs : lookup_of[p] = <<b, i>>

ProductIdOf(p) == product_ids[lookup_of[p][1]][lookup_of[p][2]]

InitBatch ==
  /\ batch_pc = [b \in Batches |-> "idle"]
  /\ product_ids = [b \in Batches |-> <<>>]
  /\ semaphore = [b \in Batches |-> 0]
  /\ product_info_map = [b \in Batches |-> <<>>]
  /\ lk = [p \in Procs |-> "none"]
  /\ lookup_of = [p \in Procs |-> <<>>]
  /\ lookup_page = [p \in Procs |-> <<>>]
  /\ lookup_outcome = [p \in Procs |-> ""]
  /\ lookup_result = [p \in Procs |-> <<>>]

\* get_product_info_batch(ids): the semaphore of this call is created and
\* one task per listed id is handed to gather
BatchCall(b, ids) ==
  /\ batch_pc[b] = "idle"
  /\ Len(ids) <= Cardinality(FreeLookups)
  /\ batch_pc' = [batch_pc EXCEPT ![b] = "running"]
  /\ product_ids' = [product_ids EXCEPT ![b] = ids]
  /\ semaphore' = [semaphore EXCEPT ![b] = Min(SemaphoreCap, Len(ids))]
  /\ LET new == {NthFree(i) : i \in 1..Len(ids)}
     IN  /\ lk' = [p \in Procs |-> IF p \in new THEN "queued" ELSE lk[p]]
         /\ lookup_of' = [p \in Procs |->
              IF p \in new
              THEN <<b, CHOOSE i \in 1..Len(ids) : NthFree(i) = p>>
              ELSE lookup_of[p]]
  /\ UNCHANGED <<product_info_map, lookup_page, lookup_outcome,
                 lookup_result>>
  /\ BatchOnly

\* `async with semaphore`: a task takes a permit of its own batch
SemaphoreAcquire(p) ==
  /\ lk[p] = "queued"
  /\ semaphore[lookup_of[p][1]] > 0
  /\ semaphore' = [semaphore EXCEPT ![lookup_of[p][1]] = @ - 1]
  /\ lk' = [lk EXCEPT ![p] = "permit"]
  /\ UNCHANGED <<batch_pc, product_ids, product_info_map, lookup_of,
                 lookup_page, lookup_outcome, lookup_result>>
  /\ BatchOnly

\* `page = await self.page_pool.get_page(...)` is called by the lookup
LookupGetPage(p) ==
  /\ lk[p] = "permit"
  /\ lookup_page[p] = <<>>
  /\ GetPageCall(p)

\* get_page raised: the exception leaves get_product_info_with_api, is
\* caught by get_single_product_info, and the permit is released
LookupNoPage(p) ==
  /\ lk[p] = "permit"
  /\ lookup_page[p] = <<NoPage>>
  /\ lk' = [lk EXCEPT ![p] = "done"]
  /\ lookup_page' = [lookup_page EXCEPT ![p] = <<>>]
  /\ lookup_outcome' = [lookup_outcome EXCEPT ![p] = "no_page"]
  /\ lookup_result' = [lookup_result EXCEPT ![p] =
       get_single_product_info(ProductIdOf(p), "no_page")]
  /\ semaphore' = [semaphore EXCEPT ![lookup_of[p][1]] = @ + 1]
  /\ UNCHANGED <<batch_pc, product_ids, product_info_map, lookup_of>>
  /\ BatchOnly

\* the try block with a page: goto, then the wait for the API response;
\* whatever it returns reaches the caller only after the finally block
LookupApi(p) ==
  /\ lk[p] = "permit"
  /\ lookup_page[p] # <<>>
  /\ lookup_page[p] # <<NoPage>>
  /\ lk' = [lk EXCEPT ![p] = "finally"]
  /\ UNCHANGED <<batch_pc, product_ids, semaphore, product_info_map,
                 lookup_of, lookup_page, lookup_result, lookup_outcome>>
  /\ BatchOnly

\* `finally: await self.page_pool.return_page(page)`
LookupReturnPage(p) ==
  /\ lk[p] = "finally"
  /\ lookup_page[p] # <<>>
  /\ ReturnPageCall(p, lookup_page[p][1])

\* return_page is back: the value of the try block (the response, None
\* after a timeout, None after an exception) is returned, the task's result
\* is set and the permit released
SemaphoreRelease(p, outcome) ==
  /\ lk[p] = "finally"
  /\ lookup_page[p] = <<>>
  /\ lk' = [lk EXCEPT ![p] = "done"]
  /\ lookup_result' = [lookup_result EXCEPT ![p] =
       get_single_product_info(ProductIdOf(p), outcome)]
  /\ lookup_outcome' = [lookup_outcome EXCEPT ![p] = outcome]
  /\ semaphore' = [semaphore EXCEPT ![lookup_of[p][1]] = @ + 1]
  /\ UNCHANGED <<batch_pc, product_ids, product_info_map, lookup_of,
                 lookup_page>>
  /\ BatchOnly

\* gather has every result: the map is built in task order and returned
BatchReturn(b) ==
  /\ batch_pc[b] = "running"
  /\ \A p \in LookupsOf(b) : lk[p] = "done"
  /\ batch_pc' = [batch_pc EXCEPT ![b] = "returned"]
  /\ product_info_map' = [product_info_map EXCEPT ![b] =
       BuildMap([i \in 1..Len(product_ids[b]) |->
                   lookup_result[TaskOf(b, i)]], Len(product_ids[b]))]
  /\ UNCHANGED <<product_ids, semaphore, lk, lookup_of, lookup_page,
                 lookup_outcome, lookup_result>>
  /\ BatchOnly

\* the caller has taken the map; the call's tasks and semaphore are gone
BatchDone(b) ==
  /\ batch_pc[b] = "returned"
  /\ batch_pc' = [batch_pc EXCEPT ![b] = "idle"]
  /\ product_ids' = [product_ids EXCEPT ![b] = <<>>]
  /\ semaphore' = [semaphore EXCEPT ![b] = 0]
  /\ product_info_map' = [product_info_map EXCEPT ![b] = <<>>]
  /\ lk' = [p \in Procs |-> IF p \in LookupsOf(b) THEN "none" ELSE lk[p]]
  /\ lookup_of' = [p \in Procs |->
       IF p \in LookupsOf(b) THEN <<>> ELSE lookup_of[p]]
  /\ lookup_outcome' = [p \in Procs |->
       IF p \in LookupsOf(b) THEN "" ELSE lookup_outcome[p]]
  /\ lookup_result' = [p \in Procs |->
       IF p \in LookupsOf(b) THEN <<>> ELSE lookup_result[p]]
  /\ UNCHANGED lookup_page
  /\ BatchOnly

NextBatch ==
  \/ \E b \in Batches : \E ids \in IdLists : BatchCall(b, ids)
  \/ \E p \in Procs : SemaphoreAcquire(p)
  \/ \E p \in Procs : LookupGetPage(p)
  \/ \E p \in Procs : GetPageEnter(p)
  \/ \E p \in Procs : GetPageNew(p)
  \/ \E p \in Procs : GetPageNewFails(p)
  \/ \E p \in Procs : GetPagePoll(p)
  \/ \E p \in Procs : LookupNoPage(p)
  \/ \E p \in Procs : LookupApi(p)
  \/ \E p \in Procs : LookupReturnPage(p)
  \/ \E p \in Procs : ReturnPageEnter(p)
  \/ \E p \in Procs : ReturnPageProbeOk(p)
  \/ \E p \in Procs : ReturnPageProbeFails(p)
  \/ \E p \in Procs : ReturnPageClose(p)
  \/ \E p \in Procs : \E outcome \in Outcomes : SemaphoreRelease(p, outcome)
  \/ \E b \in Batches : BatchReturn(b)
  \/ \E b \in Batches : BatchDone(b)

(***************************************************************************)
(* TaobaoBrowserClient.start / close over BrowserManager                   *)
(***************************************************************************)
SessionOnly == UNCHANGED <<poolVars, monVars, opVars, scanVars, resolveVars, matchVars, replyVars, chatVars, inputVars, batchVars,
    autoReplyVars>>

Coroutines == 1..NumCoroutines
NoBrowser == 0

InitSession ==
  /\ started = FALSE
  /\ playwright = NoBrowser
  /\ browser = NoBrowser
  /\ context = NoBrowser
  /\ launch_calls = 0
  /\ closed_browsers = {}
  /\ spc = [c \in Coroutines |-> "idle"]
  /\ launching = [c \in Coroutines |-> NoBrowser]
  /\ page_from = [c \in Coroutines |-> NoBrowser]

\* BrowserManager.is_started
is_started == browser # NoBrowser /\ context # NoBrowser

\* `if not self.started:` of TaobaoBrowserClient.start
NeedsStart(flag) == ~flag

\* get_product_info_with_api calls start(): the flag is tested, and either
\* start() returns at once or BrowserManager.start() is awaited
LookupStart(c) ==
  /\ spc[c] = "idle"
  /\ spc' = [spc EXCEPT ![c] = IF NeedsStart(started) THEN "playwright"
                                ELSE "started"]
  /\ UNCHANGED <<launching, started, playwright, browser, context, launch_calls,
                 closed_browsers, page_from>>
  /\ SessionOnly

\* `self.playwright = await async_playwright().start()`, then
\* launch_persistent_context is called on the profile directory
LaunchCall(c) ==
  /\ spc[c] = "playwright"
  /\ launch_calls < MaxLaunches
  /\ playwright' = launch_calls + 1
  /\ launch_calls' = launch_calls + 1
  /\ launching' = [launching EXCEPT ![c] = launch_calls + 1]
  /\ spc' = [spc EXCEPT ![c] = "launch"]
  /\ UNCHANGED <<started, browser, context, closed_browsers, page_from>>
  /\ SessionOnly

\* the launch returns: self.browser and self.context are set
LaunchReturns(c) ==
  /\ spc[c] = "launch"
  /\ browser' = launching[c]
  /\ context' = launching[c]
  /\ launching' = [launching EXCEPT ![c] = NoBrowser]
  /\ spc' = [spc EXCEPT ![c] = "flag"]
  /\ UNCHANGED <<started, playwright, launch_calls, closed_browsers,
                 page_from>>
  /\ SessionOnly

\* the launch raises (for one, the profile directory is held by another
\* browser): start() and the lookup end with the exception
LaunchRaises(c) ==
  /\ spc[c] = "launch"
  /\ spc' = [spc EXCEPT ![c] = "idle"]
  /\ launching' = [launching EXCEPT ![c] = NoBrowser]
  /\ UNCHANGED <<started, playwright, browser, context, launch_calls,
                 closed_browsers, page_from>>
  /\ SessionOnly

\* `self.started = True`
SetStarted(c) ==
  /\ spc[c] = "flag"
  /\ started' = TRUE
  /\ spc' = [spc EXCEPT ![c] = "started"]
  /\ UNCHANGED <<launching, playwright, browser, context, launch_calls,
                 closed_browsers, page_from>>
  /\ SessionOnly

\* the lookup goes on: get_page may ask BrowserManager.new_page(), which
\* raises without a context and otherwise opens a page in that context
LookupNewPage(c) ==
  /\ spc[c] = "started"
  /\ page_from' = [page_from EXCEPT ![c] = context]
  /\ spc' = [spc EXCEPT ![c] = "idle"]
  /\ UNCHANGED <<launching, started, playwright, browser, context, launch_calls,
                 closed_browsers>>
  /\ SessionOnly

\* TaobaoBrowserClient.close is called: close_all_pages, then
\* BrowserManager.close
CloseCall(c) ==
  /\ spc[c] = "idle"
  /\ spc' = [spc EXCEPT ![c] = "closing"]
  /\ page_from' = [page_from EXCEPT ![c] = NoBrowser]
  /\ UNCHANGED <<launching, started, playwright, browser, context, launch_calls,
                 closed_browsers>>
  /\ SessionOnly

\* BrowserManager.close: `if self.browser: await self.browser.close()`,
\* `if self.playwright: await self.playwright.stop()`; close() returns
CloseReturns(c) ==
  /\ spc[c] = "closing"
  /\ closed_browsers' = IF browser # NoBrowser
                          THEN closed_browsers \cup {browser}
                          ELSE closed_browsers
  /\ spc' = [spc EXCEPT ![c] = "idle"]
  /\ UNCHANGED <<launching, started, playwright, browser, context, launch_calls,
                 page_from>>
  /\ SessionOnly

NextSession ==
  \/ \E c \in Coroutines : LookupStart(c)
  \/ \E c \in Coroutines : LaunchCall(c)
  \/ \E c \in Coroutines : LaunchReturns(c)
  \/ \E c \in Coroutines : LaunchRaises(c)
  \/ \E c \in Coroutines : SetStarted(c)
  \/ \E c \in Coroutines : LookupNewPage(c)
  \/ \E c \in Coroutines : CloseCall(c)
  \/ \E c \in Coroutines : CloseReturns(c)

(***************************************************************************)
(* WhatsAppBrowserClient.auto_reply_message: one scan, then the loop over   *)
(* the entries the scan returned.  IndexError of an empty history leaves    *)
(* the call.                                                                *)
(***************************************************************************)
AutoReplyOnly == UNCHANGED <<poolVars, monVars, opVars, scanVars, resolveVars, matchVars, replyVars, chatVars, inputVars, batchVars, sessionVars>>

\* the frame of the step that scans inside auto_reply_message
ScanInAutoReply == UNCHANGED <<poolVars, monVars, opVars, resolveVars, matchVars, replyVars, chatVars, inputVars, batchVars, sessionVars>>

can_auto_replay_contact_message(contact_name) == contact_name # "WhatsApp"

\* the chat list shows one item, hence at most one indicator, per contact
OnePerContact(items) ==
  \A i, j \in DOMAIN items :
    (/\ i # j
     /\ items[i].kind = "entry"
     /\ items[j].kind = "entry") => items[i].sender # items[j].sender

ChatListOutcomes == {"not_activated", "empty", "messages"}

\* [] when the chat cannot be activated, else what get_chat_messages
\* returns; "m" stands for a message of the history
get_contact_chat_list(outcome) ==
  IF outcome = "messages" THEN <<"m">> ELSE <<>>

GeneratorOutcomes == {"reply", "blank", "failed"}

NoneYet == [s \in Senders |-> 0]

InitAutoReply ==
  /\ ar_pc = "idle"
  /\ unread_contact_messages = <<>>
  /\ entry = 0
  /\ recently_messages = <<>>
  /\ generated = NoneYet
  /\ replied = NoneYet
  /\ ar_result = <<>>

\* auto_reply_message up to the for statement
AutoReplyCall(cur, items, reload) ==
  /\ ar_pc = "idle"
  /\ OnePerContact(items)
  /\ get_unread_messages(cur, items, reload)
  /\ unread_contact_messages' = returned'
  /\ entry' = 1
  /\ ar_pc' = "loop"
  /\ recently_messages' = <<>>
  /\ generated' = NoneYet
  /\ replied' = NoneYet
  /\ ar_result' = <<>>
  /\ ScanInAutoReply

\* the loop body up to recently_messages_dict[-1]
GetContactChatList(outcome) ==
  /\ ar_pc = "loop"
  /\ entry <= Len(unread_contact_messages)
  /\ LET contact_message == unread_contact_messages[entry]
         msgs == get_contact_chat_list(outcome)
     IN
     IF ~can_auto_replay_contact_message(contact_message.sender)
       THEN /\ entry' = entry + 1
            /\ UNCHANGED <<ar_pc, recently_messages>>
       ELSE IF msgs = <<>>
         THEN /\ ar_pc' = "raised"
              /\ UNCHANGED <<entry, recently_messages>>
         ELSE /\ ar_pc' = "generate"
              /\ recently_messages' = msgs
              /\ UNCHANGED entry
  /\ UNCHANGED <<unread_contact_messages, generated, replied, ar_result>>
  /\ AutoReplyOnly

\* handle_customer_message and the sends of its reply
HandleCustomerMessage(outcome) ==
  /\ ar_pc = "generate"
  /\ LET sender == unread_contact_messages[entry].sender IN
     /\ generated' = [generated EXCEPT ![sender] = @ + 1]
     /\ replied' = IF outcome = "reply"
                     THEN [replied EXCEPT ![sender] = @ + 1]
                     ELSE replied
  /\ entry' = entry + 1
  /\ ar_pc' = "loop"
  /\ UNCHANGED <<unread_contact_messages, recently_messages, ar_result>>
  /\ AutoReplyOnly

AutoReplyReturns ==
  /\ ar_pc = "loop"
  /\ entry > Len(unread_contact_messages)
  /\ ar_pc' = "done"
  /\ ar_result' = unread_contact_messages
  /\ UNCHANGED <<unread_contact_messages, entry, recently_messages, generated, replied>>
  /\ AutoReplyOnly

\* the caller has the result or the exception
AutoReplyDone ==
  /\ ar_pc \in {"done", "raised"}
  /\ ar_pc' = "idle"
  /\ UNCHANGED <<unread_contact_messages, entry, recently_messages, generated, replied, ar_result>>
  /\ AutoReplyOnly

NextAutoReply ==
  \/ \E cur \in ChatReads : \E items \in SeqsUpTo(Indicators, MaxItems) :
       \E reload \in ReloadOutcomes : AutoReplyCall(cur, items, reload)
  \/ \E outcome \in ChatListOutcomes : GetContactChatList(outcome)
  \/ \E outcome \in GeneratorOutcomes : HandleCustomerMessage(outcome)
  \/ AutoReplyReturns
  \/ AutoReplyDone

Init == InitPool /\ InitMon /\ InitOps /\ InitScan /\ InitResolve /\ InitMatch /\ InitReply /\ InitChat /\ InitInput /\ InitBatch /\ InitSession /\ InitAutoReply

SpecPool == Init /\ [][NextPool]_vars

SpecMon == Init /\ [][NextMon]_vars

FairSpecMon == SpecMon /\ FairMon

SpecOps == Init /\ [][NextOps]_vars

SpecScan == Init /\ [][NextScan]_vars

SpecResolve == Init /\ [][NextResolve]_vars

\* the event loop runs every coroutine that is ready
FairSpecPool == SpecPool /\ FairPool

SpecAutoReply == Init /\ [][NextAutoReply]_vars

SpecMonTasks == Init /\ [][NextMonTasks]_vars

SpecSession == Init /\ [][NextSession]_vars

SpecBatch == Init /\ [][NextBatch]_vars

SpecInput == Init /\ [][NextInput]_vars

SpecChat == Init /\ [][NextChat]_vars

SpecReply == Init /\ [][NextReply]_vars

SpecMatch == Init /\ [][NextMatch]_vars

(***************************************************************************)
(* Claims about PagePool.                                                  *)
(***************************************************************************)
IdleSet == SeqToSet(available_pages)

\* C2: in every reachable pool state the idle pages and the pages in use
\* together number at most max_pages, no page is idle and in use at once,
\* and no page is queued twice in the idle deque.
C2_PoolBounded ==
  /\ Len(available_pages) + Cardinality(in_use_pages) <= max_pages
  /\ IdleSet \cap in_use_pages = {}
  /\ Cardinality(IdleSet) = Len(available_pages)

\* C2 witness: the pool is at capacity with an idle page and a page in use
\* after a page has been returned and another one created.
C2_Witness ==
  /\ Len(available_pages) + Cardinality(in_use_pages) = max_pages
  /\ Len(available_pages) > 0
  /\ in_use_pages # {}

\* return_page comes back to caller p in this step after the probe answered
ProbeSucceeded(p) == ppc[p] = "rp_probe" /\ ppc'[p] = "idle"

\* return_page comes back to caller p in this step after the probe failed
ProbeFailed(p) == ppc[p] = "rp_close" /\ ppc'[p] = "idle"

\* C21: return_page of a page in use: when the probe succeeds the page ends
\* in the idle deque and not in the in-use set; when the probe fails the
\* page is closed and ends in neither collection; and a closed page is
\* never idle or in use again, so get_page never hands it out.
C21_ReturnPageOutcome ==
  /\ [][\A p \in Procs :
         /\ ProbeSucceeded(p) =>
              /\ parg[p] \in SeqToSet(available_pages')
              /\ parg[p] \notin in_use_pages'
         /\ ProbeFailed(p) =>
              /\ parg[p] \in closed_pages'
              /\ parg[p] \notin SeqToSet(available_pages')
              /\ parg[p] \notin in_use_pages']_vars
  /\ [](closed_pages \cap (IdleSet \cup in_use_pages) = {})

\* C21 witness: one returned page was closed after a failed probe, another
\* went back to the idle deque, and get_page has handed out a page since.
C21_Witness ==
  /\ closed_pages # {}
  /\ Len(available_pages) > 0
  /\ in_use_pages # {}
  /\ \A p \in Procs : ppc[p] = "idle"

\* a get_page caller sits in the full-pool polling loop
Waiting(p) == ppc[p] = "gp_wait"

\* a holder has called return_page on a page in use that still answers
Releasing(q) ==
  /\ ppc[q] \in {"rp_lock", "rp_probe"}
  /\ parg[q] \in in_use_pages \/ ppc[q] = "rp_probe"
  /\ parg[q] \notin closed_pages

\* C3: when the pool is full and a caller polls in get_page, a return_page
\* of a page in use lets the blocked get_page eventually return a page.
C3_FullPoolProgress ==
  \A p \in Procs : \A q \in Procs :
    (Waiting(p) /\ Releasing(q)) ~> ~Waiting(p)

(***************************************************************************)
(* Claims about WhatsAppMonitor.                                           *)
(***************************************************************************)
Awaiting(l, t) == lpc[l] = "run" /\ task_name[l] = t

\* the enabled tasks that come after task t in the tasks dict
EnabledAfter(t) == {u \in TaskNames : u > t /\ tasks[u].enabled}

\* this step records one more run of task t, successful or failed
Recorded(t) ==
  tasks'[t].execution_count + tasks'[t].error_count
    = tasks[t].execution_count + tasks[t].error_count + 1

\* C6: at most one task function of the monitor executes at a time, and the
\* coroutine that executes it holds _task_lock for its whole cycle.
C6_OneTaskAtATime ==
  /\ Cardinality({l \in Loops : lpc[l] = "run"}) <= 1
  /\ \A l \in Loops : lpc[l] = "run" => task_lock = l /\ current_task = task_name[l]

\* C6 witness: two start_monitoring coroutines are alive, one executes a
\* task and the other is queued on _task_lock for its own cycle.
C6_Witness ==
  \E l \in Loops : \E k \in Loops : lpc[l] = "run" /\ lpc[k] = "lock"

\* C7: when a task function raises, its error_count grows by exactly one,
\* is_running is untouched and the coroutine goes on with the next enabled
\* task of the same cycle (or sleeps when there is none); within a cycle the
\* tasks run in dict order, each at most once; and a sleeping coroutine ends
\* only when is_running was cleared or it was cancelled, otherwise it leaves
\* its sleep for the next cycle.
C7_ErrorKeepsLoop ==
  /\ [][\A t \in TaskNames :
          (tasks'[t].error_count # tasks[t].error_count) =>
            \E l \in Loops :
              /\ Awaiting(l, t)
              /\ tasks'[t].error_count = tasks[t].error_count + 1
              /\ tasks'[t].execution_count = tasks[t].execution_count
              /\ is_running' = is_running
              /\ IF EnabledAfter(t) = {}
                   THEN lpc'[l] = "sleep"
                   ELSE /\ lpc'[l] = "run"
                        /\ task_name'[l] \in EnabledAfter(t)
                        /\ \A u \in EnabledAfter(t) : task_name'[l] <= u]_vars
  /\ [][\A l \in Loops :
          (lpc[l] = "run" /\ lpc'[l] = "run" /\ task_name'[l] # task_name[l]) =>
            task_name'[l] > task_name[l]]_vars
  /\ [][\A l \in Loops :
          (lpc[l] = "sleep" /\ lpc'[l] = "done") => ~is_running \/ cancel_req[l]]_vars
  /\ \A l \in Loops :
       (lpc[l] = "sleep" /\ is_running) ~> (lpc[l] # "sleep" \/ cycles = MaxCycles)

\* C7 witness: task 1 has failed in two cycles, task 2 was executed in both
\* of them, and the monitor is still running.
C7_Witness ==
  \E l \in Loops :
    /\ is_running
    /\ lpc[l] = "sleep"
    /\ tasks[1].error_count >= 2
    /\ tasks[2].execution_count >= 2

\* C8: a task function is invoked only while its task is enabled; the
\* counters of a disabled task that is not in flight never change; toggling
\* a task changes nothing but its enabled flag; and when a task has run, no
\* enabled task after it is skipped.
C8_DisabledTaskSkipped ==
  /\ [][\A l \in Loops : \A t \in TaskNames :
          (Awaiting(l, t)' /\ ~Awaiting(l, t)) => tasks[t].enabled]_vars
  /\ [][\A t \in TaskNames :
          (~tasks[t].enabled /\ \A l \in Loops : ~Awaiting(l, t)) =>
            /\ tasks'[t].execution_count = tasks[t].execution_count
            /\ tasks'[t].error_count = tasks[t].error_count]_vars
  /\ [][\A t \in TaskNames :
          (tasks'[t].enabled # tasks[t].enabled) =>
            /\ \A u \in TaskNames \ {t} : tasks'[u] = tasks[u]
            /\ tasks'[t].execution_count = tasks[t].execution_count
            /\ tasks'[t].error_count = tasks[t].error_count
            /\ UNCHANGED <<lpc, task_name, is_running, task_lock>>]_vars
  /\ [][\A l \in Loops : \A t \in TaskNames :
          (Awaiting(l, t) /\ Recorded(t)) =>
            \A u \in EnabledAfter(t) : lpc'[l] = "run" /\ task_name'[l] <= u]_vars

\* C8 witness: a task that ran was disabled afterwards, and another task has
\* been executed in a later cycle without it.
C8_Witness ==
  \E t \in TaskNames : \E u \in TaskNames :
    /\ ~tasks[t].enabled
    /\ tasks[t].execution_count >= 1
    /\ tasks[u].execution_count > tasks[t].execution_count + tasks[t].error_count

InFlight(l) == lpc[l] \in {"lock", "run", "sleep"}

Between(c) == opc[c] = "act"

\* C1: compound operations on the one page are mutually exclusive: no
\* caller performs a page action between the first and the last page action
\* of another caller.
C1_CompoundOpsExclusive ==
  \A c \in Callers : \A d \in Callers :
    (c # d /\ Between(c)) => ~Between(d)

\* C1, seen from the caller: the read or send of an operation acts on the
\* chat of the contact the operation resolved.
C1_ActsOnOwnChat ==
  \A c \in Callers :
    (opc[c] = "idle" /\ acted_on[c] # NoContact) => acted_on[c] = otarget[c]

(***************************************************************************)
(* Claims about get_unread_messages.                                       *)
(***************************************************************************)
SamePair(m, n) == m.sender = n.sender /\ m.content = n.content

EntriesFor(msgs, m) == {i \in DOMAIN msgs : SamePair(msgs[i], m)}

\* the last scan read a message of the sender the cache holds
SameSenderAsCached ==
  /\ chat_read # <<>>
  /\ cached_before # <<>>
  /\ chat_read[1].sender = cached_before[1].sender

\* what the claim says of a scan that read a message of the cached sender
NewMessageVerdict ==
  IF chat_read[1].content = cached_before[1].content
    THEN ~from_cache
    ELSE Cardinality(EntriesFor(returned, chat_read[1])) = 1

C22_CacheEmptyAfterReload == reloaded => current_chat_info = <<>>

\* the last scan came to exactly one unmuted indicator, of contact "a",
\* whose label gave the unread count 2; it ended normally and the open
\* chat added no entry of its own
OneIndicatorWithCountTwo ==
  /\ logged_counts = <<<<"a", <<"2">>>>>>
  /\ ~scan_failed
  /\ ~from_cache

\* C23: a scan of a chat list with exactly one unmuted unread indicator,
\* labelled "2 unread messages" and belonging to one contact, returns
\* exactly one entry, for that contact, and the entry carries
\* unread_count = 2.
C23_EntryCarriesUnreadCount ==
  OneIndicatorWithCountTwo =>
    /\ Len(returned) = 1
    /\ returned[1].sender = "a"
    /\ "unread_count" \in DOMAIN returned[1]
    /\ returned[1].unread_count = <<"2">>

\* the list the last scan returned has an entry for message m
Returned(m) == EntriesFor(returned, m) # {}

\* the last scan read message m of the open chat while the cache held
\* another content from the same sender
Changed(m) ==
  /\ chat_read = <<m>>
  /\ cached_before # <<>>
  /\ cached_before[1].sender = m.sender
  /\ cached_before[1].content # m.content

\* C26: no new-message signal of the open chat is lost.  When the scan that
\* first reads content y from the sender whose cached message has another
\* content returns no entry for y, the next scan that reads y returns one;
\* and when a scan could not read the chat, the scan that reads y after the
\* content x last read from that sender returns an entry for y.
C26_NoSignalLost ==
  [][\A m \in ChatMessages :
       /\ (Changed(m) /\ ~Returned(m) /\ chat_read' = <<m>>) => Returned(m)'
       /\ (/\ chat_read = <<>>
           /\ cached_before # <<>>
           /\ cached_before[1].sender = m.sender
           /\ cached_before[1].content # m.content
           /\ chat_read' = <<m>>) => Returned(m)']_vars

(***************************************************************************)
(* Claims about get_target_contact_chat_active.                            *)
(***************************************************************************)
\* C10: with the page started, get_target_contact_chat_active never raises
\* to its caller; whenever it does not succeed (all three strategies
\* failed, the click or the verification failed, a step threw) the result
\* has success = false and an error that is not None.
C10_FailureIsAResult ==
  /\ [][page_started => (gpc' = "raised" => gpc = "raised")]_vars
  /\ [](gpc = "returned" =>
          /\ ~result.success => result.error # NoError
          /\ result.success => result.contact_found)

C10_Witness ==
  /\ gpc = "returned"
  /\ page_started
  /\ ~result.success
  /\ result.method_used = "failed"
  /\ result.error \in SearchErrors

\* C11: when the header of the open chat matches the target at step 1, the
\* call returns success with method_used = "current_chat" and has done no
\* chat-list scan, no search and no click.
C11_CurrentChatShortCut ==
  [][(gpc = "step1" /\ gpc' # "step1" /\ header_read' # <<>>
        /\ is_contact_match(header_read', target_contact))
       => /\ gpc' = "returned"
          /\ result'.success
          /\ result'.method_used = "current_chat"
          /\ result'.contact_name = header_read'
          /\ page_ops' = {}]_vars

\* header "bo", target "Bo": resolved from the open chat
C11_Witness ==
  /\ gpc = "returned"
  /\ target_contact = <<"B", "o">>
  /\ header_read = <<"b", "o">>
  /\ result.method_used = "current_chat"
  /\ page_ops = {}

\* C12: whenever the call returns success = true, the header as last read
\* matches the target, contact_found is true and method_used is one of
\* current_chat, chat_list, search.
C12_SuccessMeansActive ==
  (gpc = "returned" /\ result.success) =>
    /\ header_read # <<>>
    /\ is_contact_match(header_read, target_contact)
    /\ result.contact_found
    /\ result.method_used \in {"current_chat", "chat_list", "search"}

C12_Witness ==
  /\ gpc = "returned"
  /\ result.success
  /\ result.method_used = "search"
  /\ "search" \in page_ops

(***************************************************************************)
(* Claims about _is_contact_match.                                         *)
(***************************************************************************)
\* C13: _is_contact_match is commutative, match(a, b) = match(b, a), and
\* match("+33 6 12 34", "33612 34") is true, match("Alice", "alice smith")
\* is true, match("Bob", "Carol") is false.
C13_MatchCommutes ==
  /\ match_called => match_out = is_contact_match(match_b, match_a)
  /\ (match_a = Phone1 /\ match_b = Phone2) => match_out
  /\ (match_a = Alice /\ match_b = AliceSmith) => match_out
  /\ (match_a = Bob /\ match_b = Carol) => ~match_out

\* a call in which only one name contains the other
C13_Witness ==
  /\ match_called
  /\ match_a = <<"a">>
  /\ match_b = <<"a", "b">>
  /\ match_out

\* the normal form of the stated rule: lowercased, with every '+', space,
\* '-', '(' and ')' removed
Normalized(name) == RemoveChars(Lower(name), PhoneFormatting)

\* C14: for non-empty names a and b, _is_contact_match(a, b) is true
\* exactly when n(a) = n(b) or one of n(a), n(b) is a substring of the
\* other.
C14_MatchIsNormalizedContainment ==
  (match_called /\ match_a # <<>> /\ match_b # <<>>) =>
    (match_out <=>
       \/ Normalized(match_a) = Normalized(match_b)
       \/ Contains(Normalized(match_a), Normalized(match_b))
       \/ Contains(Normalized(match_b), Normalized(match_a)))

(***************************************************************************)
(* Claims about the sending of a generated reply.                          *)
(***************************************************************************)
NonBlankPositions(text) == {i \in DOMAIN text : text[i] \notin Whitespace}

\* the characters of a text that are not whitespace, in order
NonBlankChars(text) == SelectSeq(text, LAMBDA c : c \notin Whitespace)

\* the non-blank characters after which a double newline comes before the
\* next non-blank character
ChunkEnds(text) ==
  {i \in NonBlankPositions(text) :
     \E j \in NonBlankPositions(text) :
       /\ i < j
       /\ \A m \in (i + 1)..(j - 1) : m \notin NonBlankPositions(text)
       /\ \E k \in (i + 1)..(j - 2) : text[k] = "\n" /\ text[k + 1] = "\n"}

\* the number of non-blank chunks between double newlines
ExpectedSends(text) ==
  IF NonBlankPositions(text) = {} THEN 0
  ELSE 1 + Cardinality(ChunkEnds(text))

RECURSIVE ConcatMessages(_)
ConcatMessages(calls) ==
  IF calls = <<>> THEN <<>>
  ELSE Head(calls).message \o ConcatMessages(Tail(calls))

\* C15: for a generated reply text, one send_message_to_contact call is
\* issued per non-blank chunk between double newlines, in the order of the
\* text, each to the sender of the unread entry; "Hi!\n\nHow can I help?"
\* gives exactly two sends, "Hi!" then "How can I help?".
C15_OneSendPerChunk ==
  reply_pc = "done" =>
    /\ Len(sends) = ExpectedSends(reply_text)
    /\ \A i \in DOMAIN sends :
         /\ sends[i].contact_name = reply_sender
         /\ NonBlankChars(sends[i].message) # <<>>
    /\ NonBlankChars(ConcatMessages(sends)) = NonBlankChars(reply_text)
    /\ reply_text = HiHowCanIHelp =>
         /\ Len(sends) = 2
         /\ sends[1].message = <<"H", "i", "!">>
         /\ sends[2].message = <<"H", "o", "w", " ", "c", "a", "n", " ", "I",
                                 " ", "h", "e", "l", "p", "?">>

C15_Witness ==
  /\ reply_pc = "done"
  /\ reply_text = HiHowCanIHelp
  /\ Len(sends) = 2

(***************************************************************************)
(* Claims about get_chat_messages.                                         *)
(***************************************************************************)
\* the text an element shows: its parts that are not blank and not a time
\* stamp
HasText(element) ==
  \E i \in DOMAIN element.texts :
    LET text == element.texts[i] IN
      /\ NonBlankChars(text) # <<>>
      /\ ~IsTimeStamp(Strip(text))

\* the element shows an image the client can read
HasImage(element) ==
  \E i \in DOMAIN element.imgs : element.imgs[i] \in {"blob:ok", "data:image/"}

\* C16: no record of get_chat_messages has both empty content and an empty
\* images list; an element with neither text nor image gives no record.
C16_NoEmptyRecord ==
  /\ \A i \in DOMAIN messages :
       ~(messages[i].content = <<>> /\ messages[i].images = <<>>)
  /\ (\A i \in DOMAIN rendered : ~HasText(rendered[i]) /\ ~HasImage(rendered[i]))
       => messages = <<>>

C16_Witness ==
  /\ chat_pc = "done"
  /\ Len(rendered) = 2
  /\ ~HasText(rendered[1]) /\ ~HasImage(rendered[1]) /\ ~rendered[1].raises
  /\ Len(messages) = 1

\* the elements that parse and show text or an image, in rendered order
Parseable(elements) ==
  SelectSeq(elements, LAMBDA e : ~e.raises /\ (HasText(e) \/ HasImage(e)))

\* C17: whichever elements fail to parse, get_chat_messages returns the
\* records of all other elements that have content or images, in rendered
\* order; a failing element removes only its own record.
C17_ParseFailureIsLocal ==
  /\ Len(messages) = Len(Parseable(rendered))
  /\ \A i \in DOMAIN messages :
       LET e == Parseable(rendered)[i] IN
         /\ messages[i].type = (IF e.out THEN "sent" ELSE "received")
         /\ messages[i].content = Strip(Join(content_parts(e.texts)))
         /\ messages[i].images = images_of(e.imgs)

C17_Witness ==
  /\ chat_pc = "done"
  /\ Len(rendered) = 2
  /\ rendered[1].raises
  /\ HasText(rendered[1])
  /\ Len(messages) = 1
  /\ messages[1].content = <<"h">>

(***************************************************************************)
(* Claims about human_like_input.                                          *)
(***************************************************************************)
\* C18 as stated: for every non-empty input string the number of character
\* keystrokes typed equals the length of the string.
C18_KeystrokesEqualLength ==
  (input_pc = "done" /\ input_text # <<>>) => keystrokes = Len(input_text)

\* C18: for every input string, a call that returns True has typed as many
\* characters as the string has after its leading and trailing whitespace
\* is removed, and the field holds that stripped string after what it held
\* before; the backspace-and-retype of the last character leaves the length
\* of the field as it was.
C18_KeystrokesEqualStrippedLength ==
  /\ [](input_pc = "done" /\ input_result =>
          /\ keystrokes = Len(Strip(input_text))
          /\ field = field_start \o Strip(input_text))
  /\ [](input_pc = "retyped" => field = field_start \o Strip(input_text))
  /\ [][(input_pc = "retype" /\ input_pc' = "retyped")
          => keystrokes' = keystrokes]_vars

\* a text with blanks at its ends was typed, with the retype
C18_Witness ==
  /\ input_pc = "retyped"
  /\ input_text = <<" ", "x", " ">>
  /\ keystrokes = 1
  /\ field = field_start \o <<"x">>

(***************************************************************************)
(* Claims about TaobaoBrowserClient.get_product_info_batch.                *)
(***************************************************************************)
IdSet(b) == SeqToSet(product_ids[b])

\* the lookups of batch b that were given product id x
LookupsFor(b, x) == {p \in LookupsOf(b) : ProductIdOf(p) = x}

Failed(p) == lookup_outcome[p] # "response"

\* C19: the map a batch returns has exactly the distinct ids of its list
\* as keys; an id whose lookups all raised, failed or timed out maps to
\* None, an id whose lookups all got the API response maps to its own
\* info whatever happened to the other ids, and an id listed twice maps
\* to the result of one of its lookups.
C19_BatchMapPerId ==
  \A b \in Batches :
    batch_pc[b] = "returned" =>
      /\ DOMAIN product_info_map[b] = IdSet(b)
      /\ \A x \in IdSet(b) :
           /\ (\A p \in LookupsFor(b, x) : Failed(p))
                => product_info_map[b][x] = None
           /\ (\A p \in LookupsFor(b, x) : ~Failed(p))
                => product_info_map[b][x] = Info(x)
           /\ product_info_map[b][x] \in {None, Info(x)}

\* C19 witness: a batch of two different ids has returned; the lookup of
\* one id met a failure and maps to None, the other maps to its info.
C19_Witness ==
  \E b \in Batches :
    /\ batch_pc[b] = "returned"
    /\ Cardinality(IdSet(b)) = 2
    /\ \E x \in IdSet(b) : \E y \in IdSet(b) :
         /\ product_info_map[b][x] = None
         /\ product_info_map[b][y] = Info(y)
         /\ \E p \in LookupsFor(b, x) : lookup_outcome[p] \in {"error", "no_page"}

\* the lookups that request a page of the pool or hold one
PageUsers ==
  {p \in Procs : lk[p] = "permit" \/ (lk[p] = "finally" /\ lookup_page[p] # <<>>)}

\* C20: while batches run, the lookups that hold or request a pool page
\* never number more than max_pages, and no lookup finds the pool full
\* with no idle page.
C20_LookupsWithinPool ==
  /\ Cardinality(PageUsers) <= max_pages
  /\ \A p \in Procs : ppc[p] # "gp_wait"

\* C25: at most one monitoring loop of the monitor is active at any time,
\* whatever start_monitoring and stop_monitoring calls were made.
C25_AtMostOneLoop == Cardinality({l \in Loops : InFlight(l)}) <= 1

\* C29: add_task and remove_task called while a cycle executes its tasks
\* do not stop the loop: a coroutine that leaves the await of a task goes
\* on to its next task or to its sleep, and is_running is left as it was.
C29_TaskChangesKeepLoop ==
  [][\A l \in Loops : \A t \in TaskNames :
       (Awaiting(l, t) /\ Recorded(t)) =>
         /\ lpc'[l] \in {"run", "sleep"}
         /\ is_running' = is_running]_vars

(***************************************************************************)
(* Claims about TaobaoBrowserClient.start and close.                       *)
(***************************************************************************)
\* the coroutines whose launch_persistent_context call is under way or has
\* returned a browser that start() is about to record
Launching == {c \in Coroutines : spc[c] \in {"launch", "flag"}}

\* C24: the browser is launched at most once, however many lookups call
\* start() before the first launch is over: no launch is under way next
\* to another one or after start() has recorded one.
C24_LaunchAtMostOnce ==
  Cardinality(Launching) + (IF started THEN 1 ELSE 0) <= 1

\* C30: when close() returns, BrowserManager.is_started() is false and
\* TaobaoBrowserClient.started is false, and no later lookup opens its
\* page in a browser that was closed.
C30_NotStartedAfterClose ==
  /\ [][\A c \in Coroutines :
         (spc[c] = "closing" /\ spc'[c] = "idle") =>
            (~is_started' /\ ~started')]_vars
  /\ [](\A c \in Coroutines : page_from[c] \notin closed_browsers)

(***************************************************************************)
(* Claims about auto_reply_message.                                        *)
(***************************************************************************)
\* C27: in one auto_reply_message call every unread entry is handled: a
\* contact whose chat cannot be activated or whose history is empty does not
\* make the call raise, and the call returns the scanned list after the loop
\* went through all of it.
C27_EveryEntryHandled ==
  /\ ar_pc # "raised"
  /\ ar_pc = "done" =>
       /\ ar_result = unread_contact_messages
       /\ entry = Len(unread_contact_messages) + 1

\* C28: within one auto_reply_message call the reply generator is invoked
\* at most once, and at most one reply is sent, per contact.
C28_OneReplyPerContact ==
  \A s \in Senders : generated[s] <= 1 /\ replied[s] <= 1

====
